---- MODULE Spec2Model ----
(***************************************************************************)
(* Generation orchestration of the self-exciting canvas: the in-memory     *)
(* session store, the single-flight job queue, the per-job pipeline with   *)
(* its progress ticker, the event emitter and the HTTP handlers that drive *)
(* them.                                                                   *)
(*                                                                         *)
(* Scheduling.  The program is one Node.js event loop.  A step of the      *)
(* model is what runs between two suspensions on I/O or on a timer: an     *)
(* await on the store resolves without I/O once the store is initialised,  *)
(* so its continuation runs in the same microtask drain and no timer or    *)
(* I/O callback can run in between.  Calls to the capability providers,    *)
(* to the file system, fetch() and setTimeout/setInterval are the          *)
(* suspension points.  Two continuations that the event loop runs in one   *)
(* drain are kept as steps of their own, the tail of the generate handler  *)
(* and the head of processJob: the model admits every order of them and    *)
(* of the other steps, which includes the orders the event loop produces.  *)
(*                                                                         *)
(* Progress values are kept in half percent units (Pct(40) is 40%),        *)
(* because the video poll loop reports 50 + attempts * 0.5.                *)
(*                                                                         *)
(* Specifications.  Spec is the generation pipeline with the routes that   *)
(* feed it; it leaves flushDirty out, which writes only the dirty set and  *)
(* the data directory and which no handler of the pipeline reads.          *)
(* SessionSpec is the session routes alone, with every answer they give.   *)
(* StoreSpec is the store with its persistence: mutators, delete and up    *)
(* to MaxFlushes runs of flushDirty at a time.  A write or an unlink       *)
(* takes effect on the directory when it returns, so that calls in flight  *)
(* on one path take effect in either order.  The order in which a flush    *)
(* goes through the ids it copied is left open.                            *)
(* RestartSpec is the store over ends and starts of the process with one   *)
(* first call per process; BootSpec lets several first calls overlap in    *)
(* ensureInitialized.  StreamSpec adds the connections of GET .../stream   *)
(* to the pipeline.  PollSpec is one video job whose poll loop is bounded  *)
(* by the code alone; FairSpec and PollFairSpec add that every awaited     *)
(* call returns.  In Init the store has served its first call: the state   *)
(* before it is that of Boot.  RefSpec is the reference requests of one    *)
(* session, DepthSpec the generate request over the depths a client can    *)
(* send.                                                                   *)
(***************************************************************************)
EXTENDS Integers, Sequences, FiniteSets, TLC

\* ------------------------------------------------------------------------
\* Bounds of the model
\* ------------------------------------------------------------------------
MaxSessions == 1
MaxReq == 2
MaxPlans == 1
MaxDirs == 2
MaxTicks == 2
MaxPolls == 1
MaxFlushes == 2
MaxLoads == 2
MaxStreams == 2
MaxBeats == 1
StreamReq == 1
MaxReplans == 2
PlanDirs == 1

\* ------------------------------------------------------------------------
\* Program constants
\* ------------------------------------------------------------------------
MaxDepth == 5
TickerStart == 40
TickerEnd == 90
TickerSteps == 50
MaxAttempts == 120
PollBase == 50
PollCap == 35

Null == "null"
Absent == -1

Pct(x) == x + x

SessionIds == 1..MaxSessions
NodeIds == 1..MaxReq
MediaTypes == {"image", "video"}
Urls == {"u1"}

IMAGE_MODEL == "gpt-image-1.5-2025-12-16"
VIDEO_MODEL == "sora-2-2025-10-06"

VARIABLES
    sessions,       \* SessionStore.sessions: id -> Session
    dirty,          \* SessionStore.dirty
    nextSession,    \* number of session ids handed out by crypto.randomUUID
    nextDir,        \* number of direction ids handed out
    nextNode,       \* number of node/job ids handed out
    jobQueue,       \* pipeline.ts jobQueue: sequence of job ids
    jobs,           \* the GenerationJob objects, by job id
    isProcessing,   \* pipeline.ts isProcessing
    loops,          \* running activations of processQueue
    tickers,        \* setInterval handles made by startProgressTicker
    apiKey,         \* process.env.OPENAI_API_KEY is set
    analyzers,      \* analyze requests suspended on a provider call
    pending,        \* generate requests whose enqueue has returned
    response,       \* the HTTP response written by the last step, if any
    nReq,           \* number of generate requests received
    nPlans,         \* number of analyze requests that reached planning
    channel,        \* per node: summary of the events emitted on '*'
    disk,           \* the documents of DATA_DIR, by session id
    flushes,        \* running activations of flushDirty
    unlinks,        \* delete calls suspended on unlink
    reply,          \* the answer of the last delete or analyze call, if any
    streams,        \* the connections made to GET .../stream, in order
    initialized,    \* SessionStore.initialized
    saveIntervals,  \* number of running setInterval timers of flushDirty
    loads           \* store calls suspended in ensureInitialized / loadAll

vars == <<sessions, dirty, nextSession, nextDir, nextNode, jobQueue, jobs,
          isProcessing, loops, tickers, apiKey, analyzers, pending, response,
          nReq, nPlans, channel, disk, flushes, unlinks, reply, streams,
          initialized, saveIntervals, loads>>

bootVars == <<initialized, saveIntervals, loads>>

\* ------------------------------------------------------------------------
\* Sequence helpers
\* ------------------------------------------------------------------------
Range(s) == {s[i] : i \in DOMAIN s}

Contains(s, x) == \E i \in DOMAIN s : s[i] = x

\* [...new Set([...a, ...b])]: first occurrences, in order
RECURSIVE Dedupe(_)
Dedupe(s) ==
    IF s = <<>> THEN <<>>
    ELSE LET r == Dedupe(SubSeq(s, 1, Len(s) - 1))
             x == s[Len(s)]
         IN IF Contains(r, x) THEN r ELSE Append(r, x)

\* ------------------------------------------------------------------------
\* Session store (session-store.ts)
\* ------------------------------------------------------------------------
\* A text is kept as its first 19 characters when they are a timestamp
\* (four digits, '-', two digits, ... as the reviver's pattern asks), ""
\* otherwise, and the characters after them.
IsoHead == "2025-01-02T03:04:05"

Millis == ".000Z"

NoText == <<"", "">>

\* a string value and a Date value; a Date is named by the text that
\* toISOString gives for it, the invalid Date by no text
Str(text) == [type |-> "string", text |-> text]

DateOf(text) == [type |-> "date", text |-> text]

InvalidDate == DateOf(NoText)

JsonNull == [type |-> "null", text |-> NoText]

\* new Date() at the creation of a session
Now == DateOf(<<IsoHead, Millis>>)

NewSession(id) ==
    [id |-> id, state |-> "initializing", referenceUrls |-> <<>>,
     salienceProfile |-> Null, directions |-> <<>>,
     caption |-> Str(NoText), createdAt |-> Now]

\* sessions.has(sid); get(sid) is ss[sid] when it holds, null otherwise
Has(ss, sid) == sid \in DOMAIN ss

\* an update that puts a session back when the map does not hold the id
StoreUpdateRevive(ss, sid, patch) ==
    LET base == IF Has(ss, sid) THEN ss[sid] ELSE NewSession(sid)
    IN (sid :> [f \in DOMAIN base |->
                   IF f \in DOMAIN patch THEN patch[f] ELSE base[f]]) @@ ss

\* update(): spread the patch over the stored session and mark it dirty
StoreUpdate(ss, sid, patch) ==
    IF ~Has(ss, sid) THEN ss
    ELSE [ss EXCEPT ![sid] =
            [f \in DOMAIN ss[sid] |->
                IF f \in DOMAIN patch THEN patch[f] ELSE ss[sid][f]]]

DirtyAfterUpdate(ss, d, sid) ==
    IF Has(ss, sid) THEN d \cup {sid} ELSE d

SetState(ss, sid, st) == StoreUpdate(ss, sid, [state |-> st])

SetReferencesAlways(ss, sid, urls) ==
    IF ~Has(ss, sid) THEN ss
    ELSE StoreUpdate(ss, sid,
            [referenceUrls |-> urls, state |-> "references_uploaded"])

SetReferences(ss, sid, urls) ==
    IF ~Has(ss, sid) THEN ss
    ELSE StoreUpdate(ss, sid,
            [referenceUrls |-> urls,
             state |-> IF Len(urls) > 0 THEN "references_uploaded"
                       ELSE ss[sid].state])

SetSalienceProfile(ss, sid, profile) ==
    StoreUpdate(ss, sid, [salienceProfile |-> profile])

SetDirections(ss, sid, dirs) ==
    StoreUpdate(ss, sid, [directions |-> dirs, state |-> "directions_planned"])

AddNode(ss, sid, did, node) ==
    IF ~Has(ss, sid) THEN ss
    ELSE StoreUpdate(ss, sid,
            [directions |->
                [i \in DOMAIN ss[sid].directions |->
                    LET d == ss[sid].directions[i]
                    IN IF d.id = did
                       THEN [d EXCEPT !.nodes = Append(d.nodes, node)]
                       ELSE d]])

PatchNode(n, patch) ==
    [f \in DOMAIN n |-> IF f \in DOMAIN patch THEN patch[f] ELSE n[f]]

\* an update that patches every node of the session
UpdateNodeAll(ss, sid, nid, patch) ==
    IF ~Has(ss, sid) THEN ss
    ELSE StoreUpdate(ss, sid,
            [directions |->
                [i \in DOMAIN ss[sid].directions |->
                    LET d == ss[sid].directions[i]
                    IN [d EXCEPT !.nodes =
                          [k \in DOMAIN d.nodes |->
                             PatchNode(d.nodes[k], patch)]]]])

\* updateNode: the node with id nid is replaced by { ...n, ...updates }
UpdateNode(ss, sid, nid, patch) ==
    IF ~Has(ss, sid) THEN ss
    ELSE StoreUpdate(ss, sid,
            [directions |->
                [i \in DOMAIN ss[sid].directions |->
                    LET d == ss[sid].directions[i]
                    IN [d EXCEPT !.nodes =
                          [k \in DOMAIN d.nodes |->
                             IF d.nodes[k].id = nid
                             THEN PatchNode(d.nodes[k], patch)
                             ELSE d.nodes[k]]]]])

\* session.directions.find((d) => d.id === did)
HasDirection(session, did) ==
    \E i \in DOMAIN session.directions : session.directions[i].id = did

FindDirection(session, did) ==
    session.directions[
        CHOOSE i \in DOMAIN session.directions :
            /\ session.directions[i].id = did
            /\ \A k \in DOMAIN session.directions :
                  session.directions[k].id = did => i <= k]

\* all nodes of a session, as a set
SessionNodes(session) ==
    UNION {Range(session.directions[i].nodes) : i \in DOMAIN session.directions}

\* getNode(sid, nid) returns a node
NodeExists(ss, sid, nid) ==
    Has(ss, sid) /\ \E n \in SessionNodes(ss[sid]) : n.id = nid

GetNode(ss, sid, nid) == CHOOSE n \in SessionNodes(ss[sid]) : n.id = nid

AllNodes == UNION {SessionNodes(sessions[s]) : s \in DOMAIN sessions}

\* ------------------------------------------------------------------------
\* Event emitter (events.ts)
\* ------------------------------------------------------------------------
\* Event names under which some code registers a listener: the stream
\* route registers its handler under '*' and nothing else does.
ListenerNames == {"*"}

\* EventEmitter.emit('error', ...) throws when no 'error' listener exists
EmitThrows(type) == type = "error" /\ "error" \notin ListenerNames

NoResponse == [status |-> 0]

NoReply == [op |-> "none"]

\* asked counts the calls of emitSessionEvent about the node in the step
\* under way, sent those of them that reached emit('*')
NoEvents ==
    [created |-> 0, early |-> FALSE, last |-> Absent, decreased |-> FALSE,
     terminal |-> 0, late |-> FALSE, asked |-> 0, sent |-> 0]

Cap(n) == IF n > 2 THEN 2 ELSE n

\* emitter.emit('*', event) for an event about node nid
Publish(ch, nid, type, progress) ==
    LET c == ch[nid]
    IN [ch EXCEPT ![nid] =
          [created   |-> IF type = "node_created" THEN Cap(c.created + 1)
                         ELSE c.created,
           early     |-> c.early \/ (type # "node_created" /\ c.created = 0),
           last      |-> IF type = "generation_progress" THEN progress
                         ELSE c.last,
           decreased |-> c.decreased
                         \/ (/\ type = "generation_progress"
                             /\ c.last # Absent
                             /\ progress < c.last),
           terminal  |-> IF type \in {"generation_complete", "error"}
                         THEN Cap(c.terminal + 1) ELSE c.terminal,
           late      |-> c.late \/ c.terminal > 0,
           asked     |-> c.asked,
           sent      |-> c.sent + 1]]

\* emitSessionEvent: the typed emit may throw, and then '*' is not reached
EmitSessionEvent(ch, nid, type, progress) ==
    LET called == [ch EXCEPT ![nid].asked = @ + 1]
    IN IF EmitThrows(type) THEN called
       ELSE Publish(called, nid, type, progress)

EmitProgress(ch, nid, progress) ==
    EmitSessionEvent(ch, nid, "generation_progress", progress)

RECURSIVE EmitProgressAll(_, _, _)
EmitProgressAll(ch, nid, ps) ==
    IF ps = <<>> THEN ch
    ELSE EmitProgressAll(EmitProgress(ch, nid, Head(ps)), nid, Tail(ps))

\* ------------------------------------------------------------------------
\* Stream connections (GET .../stream)
\* ------------------------------------------------------------------------
\* handler: handleEvent is registered under '*'; timer: the heartbeat
\* interval is set; closed: the controller is closed; got, beats: the
\* channel events and the heartbeats enqueued on the response
\* published counts the emitSessionEvent calls for the session since the
\* handler was registered and until it was removed
NewStream(sid) ==
    [sid |-> sid, handler |-> TRUE, timer |-> TRUE, closed |-> FALSE,
     got |-> 0, beats |-> 0, published |-> 0]

RECURSIVE SumOver(_, _)
SumOver(S, f) ==
    IF S = {} THEN 0
    ELSE LET x == CHOOSE y \in S : TRUE
         IN f[x] + SumOver(S \ {x}, f)

\* the nodes whose events go to the emitter of session sid
NodesOf(jb, sid) == {n \in DOMAIN jb : jb[n].sessionId = sid}

\* number of emit('*') calls on the emitter of sid in the step
SentTo(sid, ch, jb) ==
    SumOver(NodesOf(jb, sid), [n \in DOMAIN ch |-> ch[n].sent])

\* number of emitSessionEvent calls for sid in the step
AskedOf(sid, ch, jb) ==
    SumOver(NodesOf(jb, sid), [n \in DOMAIN ch |-> ch[n].asked])

\* emit('*') calls every handler registered on the emitter; handleEvent
\* enqueues the event unless the controller is closed
Deliver(st, ch, jb) ==
    [c \in DOMAIN st |->
        IF ~st[c].handler THEN st[c]
        ELSE [st[c] EXCEPT
                !.published = @ + AskedOf(st[c].sid, ch, jb),
                !.got = IF st[c].closed THEN @
                        ELSE @ + SentTo(st[c].sid, ch, jb)]]

\* the counts of the step are dropped once its events are delivered
Settled(ch) == [n \in DOMAIN ch |-> [ch[n] EXCEPT !.asked = 0, !.sent = 0]]

\* ------------------------------------------------------------------------
\* Job queue (pipeline.ts)
\* ------------------------------------------------------------------------
NewNode(nid, did, depth, media, parent) ==
    [id |-> nid, directionId |-> did, depth |-> depth, status |-> "queued",
     mediaType |-> media,
     model |-> IF media = "image" THEN IMAGE_MODEL ELSE VIDEO_MODEL,
     prompt |-> Null, promptMeta |-> Null, outputUrl |-> Null,
     thumbnailUrl |-> Null, progress |-> 0, error |-> Null,
     isPinned |-> FALSE, parentNodeId |-> parent, completedAt |-> Null]

NewJob(jid, sid, did, nid, parent, media, depth) ==
    [id |-> jid, sessionId |-> sid, directionId |-> did, nodeId |-> nid,
     parentNodeId |-> parent, mediaType |-> media, depth |-> depth,
     status |-> "queued", error |-> Null]

NewLoop(jid) == [job |-> jid, pc |-> "head", pkg |-> Null, attempts |-> 0]

NoNode == 0

\* a loop that leaves the flag as it found it
FlagNeverSet == FALSE

\* processQueue entered with the flag clear: the flag it sets
FlagOnEntry == TRUE

\* The while loop of processQueue from its test up to the first await of
\* processJob, on queue q and jobs jb; rest are the other activations and
\* flag is isProcessing as the loop found or set it.
LoopNext(rest, q, jb, flag) ==
    IF Len(q) > 0
    THEN /\ loops' = rest \cup {NewLoop(Head(q))}
         /\ jobQueue' = Tail(q)
         /\ jobs' = [jb EXCEPT ![Head(q)].status = "processing"]
         /\ isProcessing' = flag
    ELSE /\ loops' = rest
         /\ jobQueue' = q
         /\ jobs' = jb
         /\ isProcessing' = FALSE

\* processQueue(): returns at once when the flag is set
ProcessQueue(q, jb) ==
    IF isProcessing
    THEN /\ loops' = loops
         /\ jobQueue' = q
         /\ jobs' = jb
         /\ isProcessing' = isProcessing
    ELSE LoopNext(loops, q, jb, FlagOnEntry)

\* ------------------------------------------------------------------------
\* Initial state: a fresh process with an empty data directory, once its
\* first store call has come back from ensureInitialized
\* ------------------------------------------------------------------------
Init ==
    /\ sessions = <<>>
    /\ dirty = {}
    /\ nextSession = 0
    /\ nextDir = 0
    /\ nextNode = 0
    /\ jobQueue = <<>>
    /\ jobs = <<>>
    /\ isProcessing = FALSE
    /\ loops = {}
    /\ tickers = <<>>
    /\ apiKey \in BOOLEAN
    /\ analyzers = {}
    /\ pending = {}
    /\ response = NoResponse
    /\ nReq = 0
    /\ nPlans = 0
    /\ channel = [n \in NodeIds |-> NoEvents]
    /\ disk = <<>>
    /\ flushes = {}
    /\ unlinks = {}
    /\ reply = NoReply
    /\ streams = <<>>
    /\ initialized = TRUE
    /\ saveIntervals = 1
    /\ loads = {}

pipelineVars == <<nextNode, jobQueue, jobs, isProcessing, loops, tickers,
                  apiKey, channel, streams>>

\* the step has emitted the events that ch counts
Emitted(ch) ==
    /\ streams' = Deliver(streams, ch, jobs')
    /\ channel' = Settled(ch)

\* a step that answers no generate request
NoGenerate == pending' = pending /\ response' = NoResponse /\ nReq' = nReq

\* a step that touches neither the data directory nor a flush, and answers
\* no delete or analyze call
NoIO ==
    /\ UNCHANGED <<disk, flushes, unlinks, initialized, saveIntervals, loads>>
    /\ reply' = NoReply

\* ------------------------------------------------------------------------
\* Session routes
\* ------------------------------------------------------------------------
\* POST /api/salience/session
CreateSession ==
    /\ nextSession < MaxSessions
    /\ LET id == nextSession + 1
       IN /\ sessions' = (id :> NewSession(id)) @@ sessions
          /\ dirty' = dirty \cup {id}
          /\ nextSession' = id
    /\ UNCHANGED <<nextDir, analyzers, nPlans>>
    /\ UNCHANGED pipelineVars
    /\ NoGenerate
    /\ NoIO

\* delete(): the map entry and the dirty mark go
StoreDelete(ss, sid) == [k \in DOMAIN ss \ {sid} |-> ss[k]]

\* what delete() returns for an id the map does not hold
DeleteMissingTrue == TRUE

DeleteMissing == FALSE

DeleteReply(sid, deleted) ==
    [op |-> "delete", sid |-> sid, deleted |-> deleted,
     status |-> IF deleted THEN 200 ELSE 404]

\* DELETE /api/salience/session/[sessionId] up to the call of unlink; for an
\* id the store does not hold, the whole request
DeleteSession(sid) ==
    /\ IF Has(sessions, sid)
       THEN /\ sessions' = StoreDelete(sessions, sid)
            /\ dirty' = dirty \ {sid}
            /\ unlinks' = unlinks \cup {sid}
            /\ reply' = NoReply
       ELSE /\ UNCHANGED <<sessions, dirty, unlinks>>
            /\ reply' = DeleteReply(sid, DeleteMissing)
    /\ UNCHANGED <<disk, flushes>>
    /\ UNCHANGED bootVars
    /\ UNCHANGED <<nextSession, nextDir, analyzers, nPlans>>
    /\ UNCHANGED pipelineVars
    /\ NoGenerate

\* the document of sid is removed from the directory
Unlink(d, sid) == [k \in DOMAIN d \ {sid} |-> d[k]]

\* unlink returns or throws; delete() swallows the throw and returns true
UnlinkReturn(sid, ok) ==
    /\ sid \in unlinks
    /\ unlinks' = unlinks \ {sid}
    /\ disk' = IF ok THEN Unlink(disk, sid) ELSE disk
    /\ reply' = DeleteReply(sid, TRUE)
    /\ UNCHANGED <<sessions, dirty, flushes>>
    /\ UNCHANGED bootVars
    /\ UNCHANGED <<nextSession, nextDir, analyzers, nPlans>>
    /\ UNCHANGED pipelineVars
    /\ NoGenerate

\* PATCH /api/salience/session/[sessionId] with a state in the body
PatchSession(sid, st) ==
    /\ Has(sessions, sid)
    /\ sessions' = StoreUpdate(sessions, sid, [state |-> st])
    /\ dirty' = DirtyAfterUpdate(sessions, dirty, sid)
    /\ UNCHANGED <<nextSession, nextDir, analyzers, nPlans>>
    /\ UNCHANGED pipelineVars
    /\ NoGenerate
    /\ NoIO

\* PATCH /api/salience/session/[sessionId] with a caption in the body
PatchCaption(sid, text) ==
    /\ Has(sessions, sid)
    /\ sessions' = StoreUpdate(sessions, sid, [caption |-> Str(text)])
    /\ dirty' = DirtyAfterUpdate(sessions, dirty, sid)
    /\ UNCHANGED <<nextSession, nextDir, analyzers, nPlans>>
    /\ UNCHANGED pipelineVars
    /\ NoGenerate
    /\ NoIO

\* a merge that keeps every url of the request
MergeAppend(old, urls) == old \o urls

\* [...new Set([...session.referenceUrls, ...urls])]
MergeUrls(old, urls) == Dedupe(old \o urls)

\* POST .../references: merge, drop duplicates, replace
AddReferences(sid, urls) ==
    /\ Has(sessions, sid)
    /\ LET allUrls == MergeUrls(sessions[sid].referenceUrls, urls)
       IN sessions' = SetReferences(sessions, sid, allUrls)
    /\ dirty' = DirtyAfterUpdate(sessions, dirty, sid)
    /\ UNCHANGED <<nextSession, nextDir, analyzers, nPlans>>
    /\ UNCHANGED pipelineVars
    /\ NoGenerate
    /\ NoIO

\* referenceUrls.filter(u => u !== url)
Without(s, url) == SelectSeq(s, LAMBDA u : u # url)

\* DELETE .../references: drop one url, or all of them when none is named
RemoveReferences(sid, url) ==
    /\ Has(sessions, sid)
    /\ LET urls == IF url # Null
                   THEN Without(sessions[sid].referenceUrls, url)
                   ELSE <<>>
       IN sessions' = SetReferences(sessions, sid, urls)
    /\ dirty' = DirtyAfterUpdate(sessions, dirty, sid)
    /\ UNCHANGED <<nextSession, nextDir, analyzers, nPlans>>
    /\ UNCHANGED pipelineVars
    /\ NoGenerate
    /\ NoIO

\* the analysis of the session is answered from the store
NeverCached(session, force) == FALSE

IsCached(session, force) ==
    /\ session.salienceProfile # Null
    /\ Len(session.directions) > 0
    /\ ~force

\* what POST .../analyze does before it calls a provider
AnalyzeOutcome(ss, sid, force) ==
    IF ~Has(ss, sid) THEN "notfound"
    ELSE IF Len(ss[sid].referenceUrls) = 0 THEN "noreferences"
    ELSE IF IsCached(ss[sid], force) THEN "cached"
    ELSE "start"

AnalyzeReply(sid, force, outcome) ==
    [op |-> "analyze", sid |-> sid, force |-> force, outcome |-> outcome,
     cached |-> outcome = "cached",
     status |-> CASE outcome = "notfound" -> 404
                  [] outcome = "noreferences" -> 400
                  [] outcome = "cached" -> 200
                  [] outcome = "failed" -> 500
                  [] outcome = "planned" -> 200
                  [] OTHER -> 0]

\* POST .../analyze up to its answer or to the call of extractSalience
AnalyzeRequest(sid, force) ==
    /\ LET outcome == AnalyzeOutcome(sessions, sid, force)
       IN /\ reply' = AnalyzeReply(sid, force, outcome)
          /\ IF outcome = "start"
             THEN /\ sessions' = SetState(sessions, sid, "analyzing")
                  /\ dirty' = DirtyAfterUpdate(sessions, dirty, sid)
                  /\ analyzers' = analyzers \cup
                        {[id |-> nPlans + 1, sid |-> sid, force |-> force,
                          pc |-> "extract"]}
                  /\ nPlans' = nPlans + 1
             ELSE UNCHANGED <<sessions, dirty, analyzers, nPlans>>
    /\ UNCHANGED <<disk, flushes, unlinks>>
    /\ UNCHANGED bootVars
    /\ UNCHANGED <<nextSession, nextDir>>
    /\ UNCHANGED pipelineVars
    /\ NoGenerate

\* extractSalience returns or throws
AnalyzeExtracted(a, ok) ==
    /\ a \in analyzers
    /\ a.pc = "extract"
    /\ IF ok
       THEN /\ sessions' = SetSalienceProfile(sessions, a.sid, "profile")
            /\ analyzers' = (analyzers \ {a}) \cup {[a EXCEPT !.pc = "plan"]}
       ELSE /\ sessions' = SetState(sessions, a.sid, "error")
            /\ analyzers' = analyzers \ {a}
    /\ reply' = IF ok THEN NoReply
                ELSE AnalyzeReply(a.sid, a.force, "failed")
    /\ dirty' = DirtyAfterUpdate(sessions, dirty, a.sid)
    /\ UNCHANGED <<disk, flushes, unlinks>>
    /\ UNCHANGED bootVars
    /\ UNCHANGED <<nextSession, nextDir, nPlans>>
    /\ UNCHANGED pipelineVars
    /\ NoGenerate

NewDirection(id) == [id |-> id, nodes |-> <<>>]

\* planDirections returns the n directions of the planner's answer with
\* fresh ids, or throws
AnalyzePlanned(a, ok, n) ==
    /\ a \in analyzers
    /\ a.pc = "plan"
    /\ IF ok
       THEN /\ sessions' = SetDirections(sessions, a.sid,
                              [i \in 1..n |-> NewDirection(nextDir + i)])
            /\ nextDir' = nextDir + n
       ELSE /\ sessions' = SetState(sessions, a.sid, "error")
            /\ nextDir' = nextDir
    /\ analyzers' = analyzers \ {a}
    /\ reply' = IF ok THEN AnalyzeReply(a.sid, a.force, "planned")
                ELSE AnalyzeReply(a.sid, a.force, "failed")
    /\ dirty' = DirtyAfterUpdate(sessions, dirty, a.sid)
    /\ UNCHANGED <<disk, flushes, unlinks>>
    /\ UNCHANGED bootVars
    /\ UNCHANGED <<nextSession, nPlans>>
    /\ UNCHANGED pipelineVars
    /\ NoGenerate

\* ------------------------------------------------------------------------
\* Persistence (session-store.ts)
\* ------------------------------------------------------------------------
\* JSON.stringify of a value: a Date is written as the string toISOString
\* gives, an invalid Date as null
Stringify(v) ==
    IF v.type = "date"
    THEN IF v = InvalidDate THEN JsonNull ELSE Str(v.text)
    ELSE v

\* the fields of a session that the model keeps with their type: the free
\* text of the caption and a date
TypedFields == {"caption", "createdAt"}

\* JSON.stringify(session): the other fields of the model's sessions hold
\* strings that are no timestamps, numbers, null, arrays and records, which
\* the text keeps as they are
Document(session) ==
    [f \in DOMAIN session |->
        IF f \in TypedFields THEN Stringify(session[f]) ELSE session[f]]

\* /^\d{4}-\d{2}-\d{2}T\d{2}:\d{2}:\d{2}/.test(value)
StartsLikeIso(text) == text[1] # ""

\* the ends of a text after its first 19 characters with which new Date
\* reads a time: none, or milliseconds and zone
ParsedTails == {"", Millis}

\* new Date(value): the Date the text names, or the invalid Date
NewDate(text) ==
    IF text[1] # "" /\ text[2] \in ParsedTails
    THEN DateOf(<<text[1], Millis>>)
    ELSE InvalidDate

\* reviver(key, value)
Reviver(v) ==
    IF v.type = "string" /\ StartsLikeIso(v.text) THEN NewDate(v.text)
    ELSE v

\* JSON.parse(content, this.reviver)
Parse(doc) ==
    [f \in DOMAIN doc |->
        IF f \in TypedFields THEN Reviver(doc[f]) ELSE doc[f]]

\* loadAll: every document of the directory is parsed into the map
LoadAll(d) == [sid \in DOMAIN d |-> Parse(d[sid])]

\* A new process after the old one has ended, up to the end of loadAll in
\* its first store call: what was in memory is gone, the directory stays.
\* jobs and the counters keep the ids handed out so far.
Restart ==
    /\ sessions' = LoadAll(disk)
    /\ dirty' = {}
    /\ flushes' = {}
    /\ unlinks' = {}
    /\ analyzers' = {}
    /\ jobQueue' = <<>>
    /\ loops' = {}
    /\ tickers' = <<>>
    /\ isProcessing' = FALSE
    /\ pending' = {}
    /\ streams' = <<>>
    /\ response' = NoResponse
    /\ reply' = [op |-> "restart"]
    /\ initialized' = TRUE
    /\ saveIntervals' = 1
    /\ loads' = {}
    /\ UNCHANGED <<disk, jobs, channel, apiKey, nextSession, nextDir,
                   nextNode, nReq, nPlans>>

\* A new process before its first store call: nothing is loaded, no timer
\* runs.  The directory stays, and so do the ids handed out so far.
Boot ==
    /\ sessions' = <<>>
    /\ dirty' = {}
    /\ flushes' = {}
    /\ unlinks' = {}
    /\ analyzers' = {}
    /\ jobQueue' = <<>>
    /\ loops' = {}
    /\ tickers' = <<>>
    /\ isProcessing' = FALSE
    /\ pending' = {}
    /\ streams' = <<>>
    /\ response' = NoResponse
    /\ reply' = NoReply
    /\ initialized' = FALSE
    /\ saveIntervals' = 0
    /\ loads' = {}
    /\ UNCHANGED <<disk, jobs, channel, apiKey, nextSession, nextDir,
                   nextNode, nReq, nPlans>>

LoadIds == 1..MaxLoads

bootFrame == <<dirty, disk, flushes, unlinks, nextSession, nextDir,
               analyzers, nPlans>>

\* ensureInitialized of a store call that finds initialized false: the call
\* is suspended in loadAll on mkdir and readdir
EnsureInitialized(c) ==
    /\ ~initialized
    /\ \A l \in loads : l.id # c
    /\ loads' = loads \cup {[id |-> c, pc |-> "readdir", files |-> {}]}
    /\ UNCHANGED <<sessions, initialized, saveIntervals>>
    /\ UNCHANGED bootFrame
    /\ UNCHANGED pipelineVars
    /\ NoGenerate
    /\ reply' = NoReply

\* the rest of ensureInitialized once loadAll has returned: one more
\* setInterval, initialized set; the suspended call goes on from there
LoadAllReturn(l) ==
    /\ loads' = loads \ {l}
    /\ saveIntervals' = saveIntervals + 1
    /\ initialized' = TRUE

\* readdir returns the names of the documents; with none, loadAll returns
LoadReaddirReturn(l) ==
    /\ l \in loads
    /\ l.pc = "readdir"
    /\ IF DOMAIN disk = {}
       THEN LoadAllReturn(l)
       ELSE /\ loads' = (loads \ {l}) \cup
                  {[l EXCEPT !.pc = "read", !.files = DOMAIN disk]}
            /\ UNCHANGED <<initialized, saveIntervals>>
    /\ UNCHANGED sessions
    /\ UNCHANGED bootFrame
    /\ UNCHANGED pipelineVars
    /\ NoGenerate
    /\ reply' = NoReply

\* this.sessions.set(session.id, session)
MapSet(ss, sid, session) ==
    [k \in DOMAIN ss \cup {sid} |-> IF k = sid THEN session ELSE ss[k]]

\* readFile of one document returns: the parsed session is put into the map
\* whatever the map holds for that id; a failed read is logged and skipped.
\* After the last document loadAll returns.
LoadReadReturn(l, sid) ==
    /\ l \in loads
    /\ l.pc = "read"
    /\ sid \in l.files
    /\ sessions' = IF sid \in DOMAIN disk
                   THEN MapSet(sessions, sid, Parse(disk[sid]))
                   ELSE sessions
    /\ IF l.files = {sid}
       THEN LoadAllReturn(l)
       ELSE /\ loads' = (loads \ {l}) \cup {[l EXCEPT !.files = @ \ {sid}]}
            /\ UNCHANGED <<initialized, saveIntervals>>
    /\ UNCHANGED bootFrame
    /\ UNCHANGED pipelineVars
    /\ NoGenerate
    /\ reply' = NoReply

FlushIds == 1..MaxFlushes

\* writeFile puts the text in place of the document
WriteFile(d, sid, doc) == (sid :> doc) @@ d

\* flushDirty up to the call of mkdir: the interval of ensureInitialized
\* fires, or flush() or shutdown() is called
FlushStart ==
    /\ IF dirty = {}
       THEN UNCHANGED flushes
       ELSE LET free == FlushIds \ {f.id : f \in flushes}
            IN /\ free # {}
               /\ flushes' = flushes \cup
                     {[id |-> CHOOSE i \in free : \A j \in free : i <= j,
                       pc |-> "mkdir", rest |-> {}, sid |-> 0, doc |-> Null]}
    /\ UNCHANGED <<sessions, dirty, disk, unlinks>>
    /\ reply' = NoReply
    /\ UNCHANGED bootVars
    /\ UNCHANGED <<nextSession, nextDir, analyzers, nPlans>>
    /\ UNCHANGED pipelineVars
    /\ NoGenerate

\* the loop of flushDirty over the ids still to write: ids whose session is
\* gone are passed over, the next write is started, or the flush ends
FlushLoop(f, todo) ==
    LET live == todo \cap DOMAIN sessions
    IN IF live = {}
       THEN flushes' = flushes \ {f}
       ELSE \E sid \in live :
               flushes' = (flushes \ {f}) \cup
                  {[f EXCEPT !.pc = "write", !.rest = live \ {sid},
                             !.sid = sid,
                             !.doc = Document(sessions[sid])]}

\* dirty.clear()
Clear(d) == {}

\* mkdir returns: the dirty set is copied and cleared and the first write
\* starts; or mkdir throws and flushDirty rejects
FlushMkdirReturn(f, ok) ==
    /\ f \in flushes
    /\ f.pc = "mkdir"
    /\ IF ok
       THEN /\ dirty' = Clear(dirty)
            /\ FlushLoop(f, dirty)
       ELSE /\ dirty' = dirty
            /\ flushes' = flushes \ {f}
    /\ UNCHANGED <<sessions, disk, unlinks>>
    /\ reply' = NoReply
    /\ UNCHANGED bootVars
    /\ UNCHANGED <<nextSession, nextDir, analyzers, nPlans>>
    /\ UNCHANGED pipelineVars
    /\ NoGenerate

\* writeFile returns, or throws and the id is marked dirty again
FlushWriteReturn(f, ok) ==
    /\ f \in flushes
    /\ f.pc = "write"
    /\ disk' = IF ok THEN WriteFile(disk, f.sid, f.doc) ELSE disk
    /\ dirty' = IF ok THEN dirty ELSE dirty \cup {f.sid}
    /\ FlushLoop(f, f.rest)
    /\ UNCHANGED <<sessions, unlinks>>
    /\ reply' = NoReply
    /\ UNCHANGED bootVars
    /\ UNCHANGED <<nextSession, nextDir, analyzers, nPlans>>
    /\ UNCHANGED pipelineVars
    /\ NoGenerate

\* ------------------------------------------------------------------------
\* GET .../stream
\* ------------------------------------------------------------------------
\* a step of a stream connection: nothing but the connections changes
streamFrame == <<sessions, dirty, nextSession, nextDir, nextNode, jobQueue,
                 jobs, isProcessing, loops, tickers, apiKey, analyzers,
                 nPlans, channel>>

\* the handler is still registered after off('*', handleEvent)
HandlerKept == TRUE

HandlerAfterOff == FALSE

\* GET .../stream: 404 without the session; else the connect event is
\* enqueued, handleEvent is registered under '*' and the heartbeat starts
Connect(sid) ==
    /\ streams' = IF Has(sessions, sid)
                  THEN Append(streams, NewStream(sid))
                  ELSE streams
    /\ UNCHANGED streamFrame
    /\ NoGenerate
    /\ NoIO

\* the abort listener of the request: off, clearInterval, close
Disconnect(c) ==
    /\ c \in DOMAIN streams
    /\ ~streams[c].closed
    /\ streams' = [streams EXCEPT ![c].handler = HandlerAfterOff,
                                  ![c].timer = FALSE,
                                  ![c].closed = TRUE]
    /\ UNCHANGED streamFrame
    /\ NoGenerate
    /\ NoIO

\* the heartbeat interval fires: the event is enqueued, or enqueue throws
\* on a closed controller and the interval is cleared
Heartbeat(c) ==
    /\ c \in DOMAIN streams
    /\ streams[c].timer
    /\ streams' = IF streams[c].closed
                  THEN [streams EXCEPT ![c].timer = FALSE]
                  ELSE [streams EXCEPT ![c].beats = @ + 1]
    /\ UNCHANGED streamFrame
    /\ NoGenerate
    /\ NoIO

\* ------------------------------------------------------------------------
\* POST .../generate
\* ------------------------------------------------------------------------
\* const actualDepth = depth ?? direction.nodes.length + 1
ActualDepth(depth, direction) ==
    IF depth # Absent THEN depth ELSE Len(direction.nodes) + 1

\* the checks without the depth bound
RouteStatusNoDepthCheck(ss, sid, did, parent, depth) ==
    IF did = 0 THEN 400
    ELSE IF ~Has(ss, sid) THEN 404
    ELSE IF ss[sid].salienceProfile = Null \/ Len(ss[sid].directions) = 0
         THEN 400
    ELSE IF ~HasDirection(ss[sid], did) THEN 404
    ELSE IF parent # NoNode /\ ~NodeExists(ss, sid, parent) THEN 404
    ELSE 200

\* the checks without the lookup of the parent node
RouteStatusNoParentCheck(ss, sid, did, parent, depth) ==
    IF did = 0 THEN 400
    ELSE IF ~Has(ss, sid) THEN 404
    ELSE IF ss[sid].salienceProfile = Null \/ Len(ss[sid].directions) = 0
         THEN 400
    ELSE IF ~HasDirection(ss[sid], did) THEN 404
    ELSE IF ActualDepth(depth, FindDirection(ss[sid], did)) > MaxDepth
         THEN 400
    ELSE 200

\* The checks of the route, in order; 200 when all pass
RouteStatus(ss, sid, did, parent, depth) ==
    IF did = 0 THEN 400
    ELSE IF ~Has(ss, sid) THEN 404
    ELSE IF ss[sid].salienceProfile = Null \/ Len(ss[sid].directions) = 0
         THEN 400
    ELSE IF ~HasDirection(ss[sid], did) THEN 404
    ELSE IF ActualDepth(depth, FindDirection(ss[sid], did)) > MaxDepth
         THEN 400
    ELSE IF parent # NoNode /\ ~NodeExists(ss, sid, parent) THEN 404
    ELSE 200

GenerateInput(sid, did, parent, media, depth) ==
    [sid |-> sid, directionId |-> did, parentNodeId |-> parent,
     mediaType |-> media, depth |-> depth]

GenerateResponse(req, status, nid, jid) ==
    [req |-> req, status |-> status, nodeId |-> nid, jobId |-> jid]

\* The handler up to the return of enqueueGeneration: the checks, the new
\* node, node_created, the job, and the start of the worker loop.
GenerateRequest(sid, did, parent, media, depth) ==
    /\ nReq < MaxReq
    /\ nReq' = nReq + 1
    /\ LET status == RouteStatus(sessions, sid, did, parent, depth)
           req == GenerateInput(sid, did, parent, media, depth)
       IN IF status # 200
          THEN /\ response' = GenerateResponse(req, status, NoNode, NoNode)
               /\ UNCHANGED <<sessions, dirty, nextNode, jobQueue, jobs,
                              isProcessing, loops, channel, pending>>
               /\ UNCHANGED streams
          ELSE LET nid == nextNode + 1
                   d == ActualDepth(depth, FindDirection(sessions[sid], did))
                   node == NewNode(nid, did, d, media, parent)
                   job == NewJob(nid, sid, did, nid, parent, media, d)
               IN /\ sessions' = AddNode(sessions, sid, did, node)
                  /\ dirty' = DirtyAfterUpdate(sessions, dirty, sid)
                  /\ nextNode' = nid
                  /\ ProcessQueue(Append(jobQueue, nid), Append(jobs, job))
                  /\ Emitted(EmitSessionEvent(channel, nid, "node_created",
                                              Absent))
                  /\ response' = NoResponse
                  /\ pending' = pending \cup
                        {[req |-> req, nodeId |-> nid, jobId |-> nid]}
    /\ UNCHANGED <<nextSession, nextDir, analyzers, nPlans, tickers, apiKey>>
    /\ NoIO

\* a handler that answers 500 when a job ahead of the request's has failed
RespondStatusOfJob(r) ==
    IF \E j \in DOMAIN jobs : j < r.jobId /\ jobs[j].status = "failed"
    THEN 500 ELSE 200

\* NextResponse.json({ success: true, ... }): the default status
RespondStatus(r) == 200

\* The rest of the handler: setState('generating') and the 200 response
GenerateRespond(r) ==
    /\ r \in pending
    /\ sessions' = SetState(sessions, r.req.sid, "generating")
    /\ dirty' = DirtyAfterUpdate(sessions, dirty, r.req.sid)
    /\ response' = GenerateResponse(r.req, RespondStatus(r), r.nodeId, r.jobId)
    /\ pending' = pending \ {r}
    /\ UNCHANGED <<nextSession, nextDir, analyzers, nPlans, nReq>>
    /\ UNCHANGED pipelineVars
    /\ NoIO

\* ------------------------------------------------------------------------
\* Worker loop and pipeline (processQueue, processJob, generateImage,
\* generateVideo, startProgressTicker)
\* ------------------------------------------------------------------------
workerFrame == <<nextSession, nextDir, nextNode, analyzers, nPlans, apiKey>>

\* a ticker whose closure starts from 0
StartTickerFromZero(tk, nid) == (nid :> 0) @@ tk

\* startProgressTicker(..., 40, 90): the interval and the currentProgress
\* of its closure
StartTicker(tk, nid) == (nid :> Pct(TickerStart)) @@ tk

\* ticker.stop(): clearInterval, the interval is gone
StopTicker(tk, nid) == [k \in DOMAIN tk \ {nid} |-> tk[k]]

\* const step = (endProgress - startProgress) / 50
TickerStep == Pct(TickerEnd - TickerStart) \div TickerSteps

Min(a, b) == IF a < b THEN a ELSE b

\* const progress = 50 + Math.min(35, attempts * 0.5)
PollProgress(attempts) == Pct(PollBase) + Min(Pct(PollCap), attempts)

\* The activation goes on to its next suspension point
Suspend(w, w2, ss, ch, tk) ==
    /\ sessions' = ss
    /\ dirty' = IF ss # sessions
                THEN DirtyAfterUpdate(sessions, dirty, jobs[w.job].sessionId)
                ELSE dirty
    /\ tickers' = tk
    /\ loops' = (loops \ {w}) \cup {w2}
    /\ UNCHANGED <<jobQueue, jobs, isProcessing>>
    /\ Emitted(ch)
    /\ UNCHANGED workerFrame
    /\ NoGenerate
    /\ NoIO

\* error.message of a thrown Error: its fixed text and the interpolated part
Message(text, detail) == <<text, detail>>

\* the issues array of a composer or gate answer, joined with '; '
ProviderIssues == "issue one; issue two"

\* `Prompt composition failed: ${promptPackage.issues.join('; ')}`
CompositionFailed(issues) == Message("Prompt composition failed: ", issues)

\* `Prompt rejected: ${gatedPackage.gateIssues.join('; ')}`
PromptRejected(issues) == Message("Prompt rejected: ", issues)

\* an update that records a fixed text instead of the message
FailurePatchUnknown(msg) ==
    [status |-> "error", error |-> Message("Unknown error", "")]

\* the update of the catch block of processQueue
FailurePatch(msg) == [status |-> "error", error |-> msg]

\* processJob threw: the catch block of processQueue.  The node gets the
\* error, then emitError runs; when it throws, processQueue ends there.
FailJob(w, msg, ss, ch, tk) ==
    LET j == jobs[w.job]
        jb == [jobs EXCEPT ![w.job].status = "failed", ![w.job].error = msg]
    IN /\ sessions' = UpdateNode(ss, j.sessionId, j.nodeId, FailurePatch(msg))
       /\ dirty' = DirtyAfterUpdate(ss, dirty, j.sessionId)
       /\ tickers' = tk
       /\ IF EmitThrows("error")
          THEN /\ loops' = loops \ {w}
               /\ jobs' = jb
               /\ UNCHANGED <<jobQueue, isProcessing>>
          ELSE LoopNext(loops \ {w}, jobQueue, jb, isProcessing)
       /\ Emitted(EmitSessionEvent(ch, j.nodeId, "error", Absent))
       /\ UNCHANGED workerFrame
       /\ NoGenerate
       /\ NoIO

\* a final update that leaves the progress alone
CompletePatchNoProgress(url) ==
    [status |-> "complete", outputUrl |-> url, thumbnailUrl |-> url,
     completedAt |-> "date"]

\* a final update that leaves the locations alone
CompletePatchNoUrl(url) ==
    [status |-> "complete", progress |-> Pct(100), completedAt |-> "date"]

\* the final update of processJob
CompletePatch(url) ==
    [status |-> "complete", outputUrl |-> url, thumbnailUrl |-> url,
     progress |-> Pct(100), completedAt |-> "date"]

\* The produce stage returned a URL: the end of processJob and the next
\* turn of the while loop.
CompleteJob(w, url, ch, tk) ==
    LET j == jobs[w.job]
    IN /\ sessions' = UpdateNode(sessions, j.sessionId, j.nodeId,
                                 CompletePatch(url))
       /\ dirty' = DirtyAfterUpdate(sessions, dirty, j.sessionId)
       /\ tickers' = tk
       /\ LoopNext(loops \ {w}, jobQueue,
                   [jobs EXCEPT ![w.job].status = "completed"], isProcessing)
       /\ Emitted(EmitSessionEvent(
                      EmitProgress(ch, j.nodeId, Pct(95)),
                      j.nodeId, "generation_complete", Absent))
       /\ UNCHANGED workerFrame
       /\ NoGenerate
       /\ NoIO

\* processJob from its start to the call of composePrompt
JobHead(w) ==
    /\ w \in loops
    /\ w.pc = "head"
    /\ LET j == jobs[w.job]
       IN IF ~Has(sessions, j.sessionId)
          THEN FailJob(w, Message("Session not found", ""), sessions, channel,
                       tickers)
          ELSE IF ~HasDirection(sessions[j.sessionId], j.directionId)
          THEN FailJob(w, Message("Direction not found", ""), sessions, channel,
                       tickers)
          ELSE Suspend(w, [w EXCEPT !.pc = "compose"],
                  UpdateNode(sessions, j.sessionId, j.nodeId,
                             [status |-> "generating", progress |-> Pct(5)]),
                  EmitProgressAll(channel, j.nodeId, <<Pct(5), Pct(15)>>),
                  tickers)

ComposeOutcomes == {"ok", "needsRevision", "throw"}

\* composePrompt returns or throws
ComposeReturn(w, outcome) ==
    /\ w \in loops
    /\ w.pc = "compose"
    /\ LET j == jobs[w.job]
       IN CASE outcome = "throw" ->
                 FailJob(w, Message("composer error", ""), sessions, channel,
                         tickers)
            [] outcome = "needsRevision" ->
                 FailJob(w, CompositionFailed(ProviderIssues), sessions,
                         channel, tickers)
            [] OTHER ->
                 Suspend(w, [w EXCEPT !.pc = "gate", !.pkg = "composed"],
                         sessions, EmitProgress(channel, j.nodeId, Pct(30)),
                         tickers)

GateOutcomes == {"approved", "rejected", "throw"}

\* a gate that answers with its revision whatever its verdict
GatedPromptRevised(pkg, approved) == "revised"

\* gatePrompt: the composer's package when approved, the gate's revision
\* otherwise
GatedPrompt(pkg, approved) == IF approved THEN pkg ELSE "revised"

\* an update that attaches the prompt without its parameters
PromptPatchNoMeta(gated) == [prompt |-> gated, progress |-> Pct(40)]

\* the update of processJob after the gate: prompt, promptMeta (negative,
\* explanationShort and salienceDelta go with them) and progress 40
PromptPatch(gated) ==
    [prompt |-> gated, promptMeta |-> gated, progress |-> Pct(40)]

\* gatePrompt returns or throws; on approval the prompt is attached and the
\* produce stage runs up to its first suspension.
GateReturn(w, outcome) ==
    /\ w \in loops
    /\ w.pc = "gate"
    /\ LET j == jobs[w.job]
           gated == GatedPrompt(w.pkg, outcome = "approved")
           ss == UpdateNode(sessions, j.sessionId, j.nodeId,
                            PromptPatch(gated))
           ch == EmitProgress(channel, j.nodeId, Pct(40))
           tk == StartTicker(tickers, j.nodeId)
       IN CASE outcome = "throw" ->
                 FailJob(w, Message("gate error", ""), sessions, channel,
                         tickers)
            [] outcome = "rejected" ->
                 FailJob(w, PromptRejected(ProviderIssues), sessions, channel,
                         tickers)
            [] OTHER ->
                 IF j.mediaType = "image"
                 THEN Suspend(w, [w EXCEPT !.pc = "img_mkdir", !.pkg = gated],
                              ss, ch, tk)
                 ELSE IF ~apiKey
                 THEN FailJob(w, Message("OPENAI_API_KEY is not configured", ""),
                              ss, ch, tk)
                 ELSE Suspend(w, [w EXCEPT !.pc = "vid_mkdir", !.pkg = gated],
                              ss, ch, tk)

ImageFailed == Message("Image generation failed: ", "cause")
VideoFailed == Message("Video generation failed: ", "cause")

\* generateImage: ensureUploadsDir returns or throws
ImgMkdirReturn(w, ok) ==
    /\ w \in loops
    /\ w.pc = "img_mkdir"
    /\ LET j == jobs[w.job]
       IN IF ok
          THEN Suspend(w, [w EXCEPT !.pc = "img_api"], sessions,
                       EmitProgress(channel, j.nodeId, Pct(50)), tickers)
          ELSE FailJob(w, ImageFailed, sessions, channel,
                       StopTicker(tickers, j.nodeId))

ImageOutcomes == {"data", "nodata", "throw"}

\* generateImage: openai.images.generate returns or throws
ImgApiReturn(w, outcome) ==
    /\ w \in loops
    /\ w.pc = "img_api"
    /\ LET j == jobs[w.job]
           tk == StopTicker(tickers, j.nodeId)
           ch == EmitProgress(channel, j.nodeId, Pct(85))
       IN CASE outcome = "throw" -> FailJob(w, ImageFailed, sessions, channel, tk)
            [] outcome = "nodata" -> FailJob(w, ImageFailed, sessions, ch, tk)
            [] OTHER -> Suspend(w, [w EXCEPT !.pc = "img_write"], sessions, ch, tk)

\* generateImage: fs.writeFile returns or throws
ImgWriteReturn(w, ok) ==
    /\ w \in loops
    /\ w.pc = "img_write"
    /\ IF ok
       THEN CompleteJob(w, "url", channel, tickers)
       ELSE FailJob(w, ImageFailed, sessions, channel,
                    StopTicker(tickers, jobs[w.job].nodeId))

\* generateVideo: ensureUploadsDir returns or throws
VidMkdirReturn(w, ok) ==
    /\ w \in loops
    /\ w.pc = "vid_mkdir"
    /\ LET j == jobs[w.job]
       IN IF ok
          THEN Suspend(w, [w EXCEPT !.pc = "vid_create"], sessions,
                       EmitProgress(channel, j.nodeId, Pct(45)), tickers)
          ELSE FailJob(w, VideoFailed, sessions, channel,
                       StopTicker(tickers, j.nodeId))

\* generateVideo: the create request returns OK or not, or throws
VidCreateReturn(w, ok) ==
    /\ w \in loops
    /\ w.pc = "vid_create"
    /\ LET j == jobs[w.job]
       IN IF ok
          THEN Suspend(w, [w EXCEPT !.pc = "vid_sleep", !.attempts = 0],
                       sessions, EmitProgress(channel, j.nodeId, Pct(50)),
                       tickers)
          ELSE FailJob(w, VideoFailed, sessions, channel,
                       StopTicker(tickers, j.nodeId))

\* generateVideo: the 5 s sleep of the poll loop ends
VidSleepReturn(w) ==
    /\ w \in loops
    /\ w.pc = "vid_sleep"
    /\ LET j == jobs[w.job]
           attempts == w.attempts + 1
       IN Suspend(w, [w EXCEPT !.pc = "vid_poll", !.attempts = attempts],
                  sessions,
                  EmitProgress(channel, j.nodeId, PollProgress(attempts)),
                  tickers)

PollOutcomes == {"notok", "pending", "completed", "failed", "throw"}

\* a loop test that lets one more poll through
PollOneTooMany(attempts) == attempts <= MaxAttempts

\* while (!videoUrl && attempts < maxAttempts), with no URL yet
PollOnceMore(attempts) == attempts < MaxAttempts

\* 'Video generation timed out', as the catch of generateVideo wraps it
VideoTimedOut ==
    Message("Video generation failed: ", "Video generation timed out")

\* generateVideo: a status poll returns or throws
VidPollReturn(w, outcome) ==
    /\ w \in loops
    /\ w.pc = "vid_poll"
    /\ LET j == jobs[w.job]
           tk == StopTicker(tickers, j.nodeId)
       IN CASE outcome \in {"failed", "throw"} ->
                 FailJob(w, VideoFailed, sessions, channel, tk)
            [] outcome = "completed" ->
                 Suspend(w, [w EXCEPT !.pc = "vid_download"], sessions,
                         EmitProgress(channel, j.nodeId, Pct(88)), tk)
            [] OTHER ->
                 IF PollOnceMore(w.attempts)
                 THEN Suspend(w, [w EXCEPT !.pc = "vid_sleep"], sessions,
                              channel, tickers)
                 ELSE FailJob(w, VideoTimedOut, sessions, channel, tk)

\* generateVideo: the download returns OK or not, or throws
VidDownloadReturn(w, ok) ==
    /\ w \in loops
    /\ w.pc = "vid_download"
    /\ IF ok
       THEN Suspend(w, [w EXCEPT !.pc = "vid_write"], sessions, channel,
                    tickers)
       ELSE FailJob(w, VideoFailed, sessions, channel,
                    StopTicker(tickers, jobs[w.job].nodeId))

\* generateVideo: fs.writeFile returns or throws
VidWriteReturn(w, ok) ==
    /\ w \in loops
    /\ w.pc = "vid_write"
    /\ IF ok
       THEN CompleteJob(w, "url", channel, tickers)
       ELSE FailJob(w, VideoFailed, sessions, channel,
                    StopTicker(tickers, jobs[w.job].nodeId))

\* One firing of the interval callback of startProgressTicker
Tick(nid) ==
    /\ nid \in DOMAIN tickers
    /\ tickers[nid] < Pct(TickerEnd)
    /\ LET cur == Min(tickers[nid] + TickerStep, Pct(TickerEnd))
           sid == jobs[nid].sessionId
       IN /\ tickers' = [tickers EXCEPT ![nid] = cur]
          /\ sessions' = UpdateNode(sessions, sid, nid, [progress |-> cur])
          /\ dirty' = DirtyAfterUpdate(sessions, dirty, sid)
    /\ UNCHANGED <<jobQueue, jobs, isProcessing, loops>>
    /\ Emitted(EmitProgress(channel, nid, Min(tickers[nid] + TickerStep,
                                              Pct(TickerEnd))))
    /\ UNCHANGED workerFrame
    /\ NoGenerate
    /\ NoIO

\* ------------------------------------------------------------------------
\* Specification
\* ------------------------------------------------------------------------
DepthInputs == {Absent, 1, MaxDepth + 1}

\* number of times the interval of node nid has fired with effect
TicksOf(nid) == (tickers[nid] - Pct(TickerStart)) \div TickerStep

\* the poll loop goes round again
PollAgain == {"notok", "pending"}

\* a call of the worker loop returns: a provider, the file system, fetch or
\* the sleep of the poll loop
WorkerNext ==
    \/ \E w \in loops : JobHead(w)
    \/ \E w \in loops, o \in ComposeOutcomes : ComposeReturn(w, o)
    \/ \E w \in loops, o \in GateOutcomes : GateReturn(w, o)
    \/ \E w \in loops, ok \in BOOLEAN : ImgMkdirReturn(w, ok)
    \/ \E w \in loops, o \in ImageOutcomes : ImgApiReturn(w, o)
    \/ \E w \in loops, ok \in BOOLEAN : ImgWriteReturn(w, ok)
    \/ \E w \in loops, ok \in BOOLEAN : VidMkdirReturn(w, ok)
    \/ \E w \in loops, ok \in BOOLEAN : VidCreateReturn(w, ok)
    \/ \E w \in loops : VidSleepReturn(w)
    \/ \E w \in loops, o \in PollOutcomes :
          /\ o \in PollAgain => w.attempts < MaxPolls
          /\ VidPollReturn(w, o)
    \/ \E w \in loops, ok \in BOOLEAN : VidDownloadReturn(w, ok)
    \/ \E w \in loops, ok \in BOOLEAN : VidWriteReturn(w, ok)

Next ==
    \/ CreateSession
    \/ \E sid \in SessionIds : Has(sessions, sid) /\ DeleteSession(sid)
    \/ \E sid \in unlinks, ok \in BOOLEAN : UnlinkReturn(sid, ok)
    \/ \E sid \in SessionIds, u \in Urls : AddReferences(sid, <<u>>)
    \/ \E sid \in SessionIds, force \in BOOLEAN :
          /\ AnalyzeOutcome(sessions, sid, force) = "start"
          /\ nPlans < MaxPlans
          /\ AnalyzeRequest(sid, force)
    \/ \E a \in analyzers, ok \in BOOLEAN : AnalyzeExtracted(a, ok)
    \/ \E a \in analyzers, ok \in BOOLEAN, n \in 0..MaxDirs :
          AnalyzePlanned(a, ok, n)
    \/ \E sid \in SessionIds, did \in 0..(nextDir + 1),
          parent \in 0..(nextNode + 1), media \in MediaTypes,
          depth \in DepthInputs :
          /\ did \in {0, nextDir + 1} => parent = NoNode /\ depth = Absent
          /\ GenerateRequest(sid, did, parent, media, depth)
    \/ \E r \in pending : GenerateRespond(r)
    \/ WorkerNext
    \/ \E nid \in DOMAIN tickers : TicksOf(nid) < MaxTicks /\ Tick(nid)

Spec == Init /\ [][Next]_vars

SessionStates ==
    {"initializing", "references_uploaded", "analyzing", "directions_planned",
     "generating", "idle", "error"}

\* The session routes without the generation pipeline and without flushes.
SessionNext ==
    \/ CreateSession
    \/ \E sid \in SessionIds : DeleteSession(sid)
    \/ \E sid \in unlinks, ok \in BOOLEAN : UnlinkReturn(sid, ok)
    \/ \E sid \in SessionIds, st \in SessionStates : PatchSession(sid, st)
    \/ \E sid \in SessionIds, urls \in {<<>>} \cup {<<u>> : u \in Urls} :
          AddReferences(sid, urls)
    \/ \E sid \in SessionIds, url \in {Null} \cup Urls :
          RemoveReferences(sid, url)
    \/ \E sid \in SessionIds, force \in BOOLEAN :
          /\ AnalyzeOutcome(sessions, sid, force) = "start" =>
                nPlans < MaxReplans
          /\ AnalyzeRequest(sid, force)
    \/ \E a \in analyzers, ok \in BOOLEAN : AnalyzeExtracted(a, ok)
    \/ \E a \in analyzers, ok \in BOOLEAN, n \in 0..PlanDirs :
          AnalyzePlanned(a, ok, n)

SessionSpec == Init /\ [][SessionNext]_vars

\* The store under its mutators and its persistence: sessions are created,
\* updated through setReferences and deleted while flushes run.
StoreNext ==
    \/ CreateSession
    \/ \E sid \in SessionIds : DeleteSession(sid)
    \/ \E sid \in unlinks, ok \in BOOLEAN : UnlinkReturn(sid, ok)
    \/ \E sid \in SessionIds, u \in Urls : AddReferences(sid, <<u>>)
    \/ \E sid \in SessionIds : RemoveReferences(sid, Null)
    \/ FlushStart
    \/ \E f \in flushes, ok \in BOOLEAN : FlushMkdirReturn(f, ok)
    \/ \E f \in flushes, ok \in BOOLEAN : FlushWriteReturn(f, ok)

StoreSpec == Init /\ [][StoreNext]_vars

\* the captions a client sends: empty, plain text, a timestamp alone, and
\* notes that begin with a timestamp
Captions ==
    {NoText, <<"", "golden hour">>, <<IsoHead, "">>, <<IsoHead, Millis>>,
     <<IsoHead, " take two">>}

\* The store over restarts of the process: sessions are created, captioned,
\* given references, flushed and loaded again.
RestartNext ==
    \/ CreateSession
    \/ \E sid \in SessionIds, text \in Captions : PatchCaption(sid, text)
    \/ \E sid \in SessionIds, u \in Urls : AddReferences(sid, <<u>>)
    \/ flushes = {} /\ FlushStart
    \/ \E f \in flushes, ok \in BOOLEAN : FlushMkdirReturn(f, ok)
    \/ \E f \in flushes, ok \in BOOLEAN : FlushWriteReturn(f, ok)
    \/ Restart

RestartSpec == Init /\ [][RestartNext]_vars

\* The pipeline with stream connections that come, get heartbeats and go.
StreamNext ==
    \/ CreateSession
    \/ \E sid \in SessionIds, u \in Urls : AddReferences(sid, <<u>>)
    \/ \E sid \in SessionIds :
          /\ AnalyzeOutcome(sessions, sid, FALSE) = "start"
          /\ nPlans < MaxPlans
          /\ AnalyzeRequest(sid, FALSE)
    \/ \E a \in analyzers : AnalyzeExtracted(a, TRUE)
    \/ \E a \in analyzers : AnalyzePlanned(a, TRUE, 1)
    \/ \E sid \in SessionIds, did \in 1..nextDir, media \in MediaTypes :
          /\ nReq < StreamReq
          /\ GenerateRequest(sid, did, NoNode, media, Absent)
    \/ \E r \in pending : GenerateRespond(r)
    \/ WorkerNext
    \/ \E nid \in DOMAIN tickers : TicksOf(nid) < MaxTicks /\ Tick(nid)
    \/ \E sid \in SessionIds : Len(streams) < MaxStreams /\ Connect(sid)
    \/ \E c \in DOMAIN streams : Disconnect(c)
    \/ \E c \in DOMAIN streams :
          streams[c].beats < MaxBeats /\ Heartbeat(c)

StreamSpec == Init /\ [][StreamNext]_vars

\* The store over process starts whose first calls overlap: a session is
\* created, analyzed, given a node and flushed; a new process comes up and
\* several calls reach ensureInitialized before initialized is set; a call
\* that has come back from ensureInitialized is served while the others
\* still load.
BootNext ==
    \/ initialized /\ CreateSession
    \/ \E sid \in SessionIds, u \in Urls :
          initialized /\ AddReferences(sid, <<u>>)
    \/ \E sid \in SessionIds :
          /\ initialized
          /\ AnalyzeOutcome(sessions, sid, FALSE) = "start"
          /\ nPlans < MaxPlans
          /\ AnalyzeRequest(sid, FALSE)
    \/ \E a \in analyzers : initialized /\ AnalyzeExtracted(a, TRUE)
    \/ \E a \in analyzers : initialized /\ AnalyzePlanned(a, TRUE, 1)
    \/ \E sid \in SessionIds, did \in 1..nextDir, media \in MediaTypes :
          /\ initialized
          /\ nReq < StreamReq
          /\ GenerateRequest(sid, did, NoNode, media, Absent)
    \/ \E r \in pending : initialized /\ GenerateRespond(r)
    \/ initialized /\ flushes = {} /\ FlushStart
    \/ \E f \in flushes, ok \in BOOLEAN : FlushMkdirReturn(f, ok)
    \/ \E f \in flushes, ok \in BOOLEAN : FlushWriteReturn(f, ok)
    \/ Boot
    \/ \E c \in LoadIds : EnsureInitialized(c)
    \/ \E l \in loads : LoadReaddirReturn(l)
    \/ \E l \in loads, sid \in SessionIds : LoadReadReturn(l, sid)

BootSpec == Init /\ [][BootNext]_vars

\* the urls of the reference requests, and the arrays a request carries:
\* empty, one url, two urls, the same url twice
RefUrls == {"u1", "u2", "u3", "u4"}

RefRequests ==
    {<<>>} \cup {<<u>> : u \in RefUrls}
           \cup {<<u, v>> : u \in RefUrls, v \in RefUrls}

\* The reference routes of a session, with PATCH of its state.
RefNext ==
    \/ CreateSession
    \/ \E sid \in SessionIds, urls \in RefRequests : AddReferences(sid, urls)
    \/ \E sid \in SessionIds, u \in RefUrls \cup {Null} :
          RemoveReferences(sid, u)
    \/ \E sid \in SessionIds, st \in SessionStates : PatchSession(sid, st)

RefSpec == Init /\ [][RefNext]_vars

\* the depth values a generate request carries: none, and numbers below,
\* at and above the bounds
DepthValues == {Absent, 0, 1, MaxDepth, MaxDepth + 1}

\* Generate requests with depth values of the client's choice, up to the
\* return of enqueueGeneration and the answer of the handler.
DepthNext ==
    \/ CreateSession
    \/ \E sid \in SessionIds, u \in Urls : AddReferences(sid, <<u>>)
    \/ \E sid \in SessionIds :
          /\ AnalyzeOutcome(sessions, sid, FALSE) = "start"
          /\ nPlans < MaxPlans
          /\ AnalyzeRequest(sid, FALSE)
    \/ \E a \in analyzers : AnalyzeExtracted(a, TRUE)
    \/ \E a \in analyzers : AnalyzePlanned(a, TRUE, 1)
    \/ \E sid \in SessionIds, did \in 1..nextDir, media \in MediaTypes,
          depth \in DepthValues :
          GenerateRequest(sid, did, NoNode, media, depth)
    \/ \E r \in pending : GenerateRespond(r)

DepthSpec == Init /\ [][DepthNext]_vars

\* the calls that a video job awaits return
VideoWorker ==
    \/ \E w \in loops : JobHead(w)
    \/ \E w \in loops, o \in ComposeOutcomes : ComposeReturn(w, o)
    \/ \E w \in loops, o \in GateOutcomes : GateReturn(w, o)
    \/ \E w \in loops, ok \in BOOLEAN : VidMkdirReturn(w, ok)
    \/ \E w \in loops, ok \in BOOLEAN : VidCreateReturn(w, ok)
    \/ \E w \in loops : VidSleepReturn(w)
    \/ \E w \in loops, o \in PollOutcomes : VidPollReturn(w, o)
    \/ \E w \in loops, ok \in BOOLEAN : VidDownloadReturn(w, ok)
    \/ \E w \in loops, ok \in BOOLEAN : VidWriteReturn(w, ok)

\* One video job whose poll loop runs as long as the code lets it: the
\* number of polls is bounded by the loop alone.
PollNext ==
    \/ CreateSession
    \/ \E sid \in SessionIds, u \in Urls : AddReferences(sid, <<u>>)
    \/ \E sid \in SessionIds :
          /\ AnalyzeOutcome(sessions, sid, FALSE) = "start"
          /\ nPlans < MaxPlans
          /\ AnalyzeRequest(sid, FALSE)
    \/ \E a \in analyzers : AnalyzeExtracted(a, TRUE)
    \/ \E a \in analyzers : AnalyzePlanned(a, TRUE, 1)
    \/ \E sid \in SessionIds, did \in 1..nextDir :
          /\ nReq < StreamReq
          /\ GenerateRequest(sid, did, NoNode, "video", Absent)
    \/ \E r \in pending : GenerateRespond(r)
    \/ VideoWorker
    \/ \E nid \in DOMAIN tickers : TicksOf(nid) < MaxTicks /\ Tick(nid)

PollSpec == Init /\ [][PollNext]_vars

\* Every call that the video job awaits returns in the end.
PollFairSpec == PollSpec /\ WF_vars(VideoWorker)

\* Every call that the worker loop awaits returns in the end, and the tail
\* of a generate handler runs.
FairSpec ==
    /\ Spec
    /\ WF_vars(WorkerNext)
    /\ WF_vars(\E r \in pending : GenerateRespond(r))

\* ------------------------------------------------------------------------
\* Properties
\* ------------------------------------------------------------------------
\* the request record of a generate request whose depth exceeds the bound,
\* judged in the state the request finds
DepthExceeds(req) ==
    IF req.depth # Absent THEN req.depth > MaxDepth
    ELSE /\ Has(sessions, req.sid)
         /\ HasDirection(sessions[req.sid], req.directionId)
         /\ Len(FindDirection(sessions[req.sid], req.directionId).nodes) + 1
               > MaxDepth

\* the request passes every check that the route makes before the depth
PassesEarlierChecks(req) ==
    /\ req.directionId # 0
    /\ Has(sessions, req.sid)
    /\ sessions[req.sid].salienceProfile # Null
    /\ HasDirection(sessions[req.sid], req.directionId)

\* the request names a missing session or direction, a session without
\* profile or directions, or a parent that is no node of the session
NamesMissing(req) ==
    \/ ~Has(sessions, req.sid)
    \/ sessions[req.sid].salienceProfile = Null
    \/ Len(sessions[req.sid].directions) = 0
    \/ ~HasDirection(sessions[req.sid], req.directionId)
    \/ req.parentNodeId # NoNode
          /\ ~NodeExists(sessions, req.sid, req.parentNodeId)

\* a step that creates no node, queues no job and publishes no event
NothingCreated ==
    UNCHANGED <<sessions, dirty, nextNode, jobQueue, jobs, isProcessing,
                loops, tickers, channel, pending>>

\* C1: at any instant at most one job has status 'processing', and at most
\* one activation of the worker loop exists, whatever the interleaving of
\* enqueue calls and worker steps.
C1_SingleFlight ==
    /\ Cardinality({j \in DOMAIN jobs : jobs[j].status = "processing"}) <= 1
    /\ Cardinality(loops) <= 1
    /\ \A w \in loops : jobs[w.job].status = "processing"

\* C1: a job is processing while another, enqueued meanwhile, waits
C1_Witness ==
    /\ isProcessing
    /\ \E w \in loops : jobs[w.job].status = "processing"
    /\ Len(jobQueue) > 0

\* C2: once a job has failed, its node carries the error, the error event
\* has been published, and the worker loop goes on: a job that waits in the
\* queue has a loop to run it, and with no loop running the flag is clear so
\* that the next enqueue starts one.
C2_FailureNeverHalts ==
    \A j \in DOMAIN jobs :
        jobs[j].status = "failed" =>
            /\ NodeExists(sessions, jobs[j].sessionId, jobs[j].nodeId) =>
                  GetNode(sessions, jobs[j].sessionId, jobs[j].nodeId).status
                     = "error"
            /\ channel[jobs[j].nodeId].terminal >= 1
            /\ Len(jobQueue) > 0 => loops # {}
            /\ loops = {} => ~isProcessing

\* C3: the events published about a node are one node_created, then
\* progress events, then exactly one of generation_complete and error once
\* its job has ended, and nothing after the terminal event.
C3_EventOrder ==
    \A n \in 1..nextNode :
        /\ channel[n].created = 1
        /\ ~channel[n].early
        /\ channel[n].terminal <= 1
        /\ ~channel[n].late
        /\ jobs[n].status \in {"completed", "failed"} =>
              channel[n].terminal = 1

\* C4: the progress values of successive generation_progress events of one
\* node never decrease.
C4_ProgressEventsMonotone ==
    \A n \in 1..nextNode : ~channel[n].decreased

\* C5: the progress stored on a node never decreases from one step to the
\* next.
C5_StoredProgressMonotone ==
    [][\A s \in DOMAIN sessions :
          s \in DOMAIN sessions' =>
             \A n \in SessionNodes(sessions[s]) :
                \A m \in SessionNodes(sessions'[s]) :
                   m.id = n.id => m.progress >= n.progress]_vars

\* C5: the ticker has raised the stored progress of a node above the 40 of
\* the gate stage
C5_Witness ==
    \E n \in AllNodes :
        /\ n.progress > Pct(TickerStart)
        /\ n.progress < Pct(100)
        /\ n.id \in DOMAIN tickers

\* C6: a node's stored progress is 100 if and only if its status is
\* 'complete'.
C6_FullIffComplete ==
    \A n \in AllNodes : (n.progress = Pct(100)) <=> (n.status = "complete")

\* C6: a node is complete after the ticker wrote its progress
C6_Witness ==
    \E n \in AllNodes :
        /\ n.status = "complete"
        /\ n.progress = Pct(100)
        /\ channel[n.id].last = Pct(95)

\* C7: the node made by an accepted generate request has as depth the
\* number of nodes that its direction already held, plus one.
C7_DepthIsCountPlusOne ==
    [][nextNode' = nextNode + 1 =>
          LET j == jobs'[nextNode']
          IN GetNode(sessions', j.sessionId, j.nodeId).depth
                = Len(FindDirection(sessions[j.sessionId],
                                    j.directionId).nodes) + 1]_vars

\* C8: a generate request whose depth exceeds 5 is never accepted; it is
\* answered with an error status, 400 when the checks before the depth
\* pass, and creates no node, queues no job and publishes no event; no
\* stored node has a depth above 5.
C8_DepthBound ==
    /\ [](\A n \in AllNodes : n.depth <= MaxDepth)
    /\ [][nReq' = nReq + 1 =>
             /\ \A r \in pending' \ pending : ~DepthExceeds(r.req)
             /\ (response'.status # 0 /\ DepthExceeds(response'.req)) =>
                   /\ response'.status \in {400, 404}
                   /\ PassesEarlierChecks(response'.req) =>
                         response'.status = 400
                   /\ NothingCreated]_vars

\* C8: a request with depth 6 for an existing direction was answered 400
C8_Witness ==
    /\ response.status = 400
    /\ response.req.depth > MaxDepth
    /\ PassesEarlierChecks(response.req)
    /\ nextNode > 0

\* C9: a generate request that names a missing session or direction, a
\* session without profile or directions, or a parent that is no node, is
\* never accepted; it is answered with an error status and changes nothing.
C9_RejectedWithoutEffect ==
    [][nReq' = nReq + 1 =>
          /\ \A r \in pending' \ pending : ~NamesMissing(r.req)
          /\ (response'.status # 0 /\ NamesMissing(response'.req)) =>
                /\ response'.status \in {400, 404}
                /\ NothingCreated]_vars

\* C9: a request whose parent names no node of the session was answered 404
C9_Witness ==
    /\ response.status = 404
    /\ PassesEarlierChecks(response.req)
    /\ response.req.parentNodeId # NoNode
    /\ ~NodeExists(sessions, response.req.sid, response.req.parentNodeId)

C11_RejectedBeforeProduce ==
    \A j \in DOMAIN jobs :
        (/\ jobs[j].status = "failed"
         /\ jobs[j].error \in {CompositionFailed(ProviderIssues),
                               PromptRejected(ProviderIssues)})
        => /\ jobs[j].nodeId \notin DOMAIN tickers
           /\ channel[jobs[j].nodeId].last \in {Pct(15), Pct(30)}
           /\ NodeExists(sessions, jobs[j].sessionId, jobs[j].nodeId) =>
                 LET n == GetNode(sessions, jobs[j].sessionId, jobs[j].nodeId)
                 IN /\ n.status = "error"
                    /\ n.error = jobs[j].error
                    /\ n.error[2] = ProviderIssues
                    /\ n.prompt = Null
                    /\ n.outputUrl = Null
                    /\ n.thumbnailUrl = Null

\* C11: the gate has rejected the package of a job and its node is stored
C11_Witness ==
    \E j \in DOMAIN jobs :
        /\ jobs[j].status = "failed"
        /\ jobs[j].error = PromptRejected(ProviderIssues)
        /\ NodeExists(sessions, jobs[j].sessionId, jobs[j].nodeId)
        /\ GetNode(sessions, jobs[j].sessionId, jobs[j].nodeId).status
              = "error"

\* C12: the status of a node moves only from queued to generating, from
\* generating to complete, or from queued or generating to error; a node
\* that is complete or in error keeps its status, progress, error and
\* output fields in every later step.
C12_TerminalIsFinal ==
    [][\A s \in DOMAIN sessions :
          s \in DOMAIN sessions' =>
             \A n \in SessionNodes(sessions[s]) :
                \A m \in SessionNodes(sessions'[s]) :
                   m.id = n.id =>
                      /\ m.status # n.status =>
                            <<n.status, m.status>> \in
                               {<<"queued", "generating">>,
                                <<"generating", "complete">>,
                                <<"queued", "error">>,
                                <<"generating", "error">>}
                      /\ n.status \in {"complete", "error"} =>
                            /\ m.status = n.status
                            /\ m.progress = n.progress
                            /\ m.error = n.error
                            /\ m.outputUrl = n.outputUrl
                            /\ m.thumbnailUrl = n.thumbnailUrl]_vars

\* C13: when every awaited call returns, the node of every enqueued job
\* reaches status 'complete' or 'error' (or leaves the store with its
\* session), and a worker that is busy goes idle again.
C13_EveryJobEnds ==
    /\ \A n \in NodeIds :
          (n <= nextNode) ~>
             (/\ n <= nextNode
              /\ \/ ~NodeExists(sessions, jobs[n].sessionId, n)
                 \/ GetNode(sessions, jobs[n].sessionId, n).status
                       \in {"complete", "error"})
    /\ isProcessing ~> ~isProcessing

\* the document of sid in the data directory is not what the store holds
\* in memory
Stale(sid) ==
    \/ sid \notin DOMAIN disk
    \/ disk[sid] # Document(sessions[sid])

\* C14: whenever no flush is in progress, every session whose content in
\* memory differs from its durable document (or that has no document yet)
\* is marked dirty, so that the next flush writes it.
C14_DirtyCoversStale ==
    flushes = {} =>
        \A sid \in DOMAIN sessions : Stale(sid) => sid \in dirty

\* C15: once delete(id) has returned and no flush is in progress, the data
\* directory holds no document of id, so that loadAll at the next start does
\* not bring the session back.
C15_DeletedHasNoDocument ==
    \A sid \in 1..nextSession :
        (sid \notin DOMAIN sessions /\ sid \notin unlinks /\ flushes = {})
            => sid \notin DOMAIN disk

\* C16: delete of an id the store does not hold answers false and changes
\* neither the session map, the dirty set nor the data directory; delete of
\* an id the store holds takes the session out of the map and of the dirty
\* set at once and answers true, and get/list do not show the session then.
C16_DeleteResult ==
    [][/\ \A sid \in unlinks' \ unlinks :
             /\ Has(sessions, sid)
             /\ ~Has(sessions', sid)
             /\ sid \notin dirty'
       /\ reply'.op = "delete" =>
             IF reply'.sid \in unlinks \ unlinks'
             THEN /\ reply'.deleted
                  /\ ~Has(sessions', reply'.sid)
             ELSE /\ ~reply'.deleted
                  /\ ~Has(sessions, reply'.sid)
                  /\ UNCHANGED <<sessions, dirty, disk>>]_vars

\* a session was created and deleted with answer true, and a further delete
\* of its id has been answered false
C16_Witness ==
    /\ reply = DeleteReply(1, FALSE)
    /\ nextSession = 1
    /\ unlinks = {}

\* the session sid is held before and after the step
Stays(sid) == Has(sessions, sid) /\ Has(sessions', sid)

\* C17: setReferences with an empty list leaves the state of the session as
\* it is, whatever that state is: in every reachable store, and in every
\* step that empties the references of a session.
C17_EmptyKeepsState ==
    /\ [](\A sid \in DOMAIN sessions :
             SetReferences(sessions, sid, <<>>)[sid].state
                = sessions[sid].state)
    /\ [][\A sid \in SessionIds :
             (/\ Stays(sid)
              /\ sessions[sid].referenceUrls # <<>>
              /\ sessions'[sid].referenceUrls = <<>>)
                => sessions'[sid].state = sessions[sid].state]_vars

\* the references of an analysed session were removed and its state is
\* still the one planning gave it
C17_Witness ==
    \E sid \in DOMAIN sessions :
        /\ sessions[sid].referenceUrls = <<>>
        /\ sessions[sid].salienceProfile # Null
        /\ Len(sessions[sid].directions) > 0
        /\ sessions[sid].state = "directions_planned"

\* the states after 'references_uploaded' in the life of a session
PastUpload == {"analyzing", "directions_planned", "generating", "idle"}

\* C18: setReferences with a non-empty list moves the session to
\* 'references_uploaded' only when it is not past that state: a session in
\* analyzing, directions_planned, generating or idle keeps its state.
C18_LaterStateKept ==
    [][\A sid \in SessionIds :
          (/\ Stays(sid)
           /\ sessions'[sid].referenceUrls # sessions[sid].referenceUrls
           /\ sessions'[sid].referenceUrls # <<>>)
             => sessions'[sid].state =
                   IF sessions[sid].state \in PastUpload
                   THEN sessions[sid].state
                   ELSE "references_uploaded"]_vars

DirectionIds(session) == {d.id : d \in Range(session.directions)}

\* C19: once planning has given a session its directions, the set of the
\* ids of its directions never changes.
C19_DirectionIdsFixed ==
    [][\A sid \in SessionIds :
          (Stays(sid) /\ sessions[sid].directions # <<>>)
             => DirectionIds(sessions'[sid]) = DirectionIds(sessions[sid])]_vars

\* the answers POST .../analyze gives before it has called a provider
RequestOutcomes == {"notfound", "noreferences", "cached", "start"}

\* C20: an analyze request without force on a session that has a profile
\* and at least one direction changes nothing in the store and calls no
\* provider: the session is the same after it, also when it is repeated.
C20_CachedAnalyzeIsNoOp ==
    [][(/\ reply'.op = "analyze"
        /\ reply'.outcome \in RequestOutcomes
        /\ ~reply'.force
        /\ Has(sessions, reply'.sid)
        /\ sessions[reply'.sid].salienceProfile # Null
        /\ sessions[reply'.sid].directions # <<>>)
          => /\ UNCHANGED <<sessions, dirty, disk, nextDir>>
             /\ UNCHANGED <<analyzers, nPlans>>
             /\ reply'.outcome # "start"
             /\ sessions[reply'.sid].referenceUrls # <<>> =>
                   reply'.cached /\ reply'.status = 200]_vars

\* an analyze request has just been answered from the store
C20_Witness ==
    /\ reply.op = "analyze"
    /\ reply.cached
    /\ ~reply.force
    /\ Has(sessions, reply.sid)
    /\ sessions[reply.sid].salienceProfile # Null
    /\ sessions[reply.sid].directions # <<>>

\* C21: a session in state 'error' leaves that state only in the step in
\* which an analyze request with force=true starts its analysis; references,
\* analyze without force, generate and PATCH leave an errored session in
\* 'error'.
C21_ErrorLeftByForcedAnalyze ==
    [][\A sid \in SessionIds :
          (/\ Stays(sid)
           /\ sessions[sid].state = "error"
           /\ sessions'[sid].state # "error")
             => /\ reply'.op = "analyze"
                /\ reply'.sid = sid
                /\ reply'.outcome = "start"
                /\ reply'.force]_vars

\* C22: every event handed to emitSessionEvent for a session, of every
\* type, is enqueued exactly once on every connection whose handler is
\* registered on that session's emitter at that time: the events a
\* connection got are the events published while it was subscribed.
C22_EveryEventDelivered ==
    \A c \in DOMAIN streams : streams[c].got = streams[c].published

\* the connection c is open before and after the step
Open(c) == ~streams[c].closed /\ ~streams'[c].closed

\* C23: when an observer disconnects, its handler is off the emitter and its
\* heartbeat timer is cancelled, so that the handlers and the timers are
\* those of the connections still open; the closed connection gets no event
\* and no heartbeat any more, the disconnect leaves the other connections
\* as they are, and the connections open on one session get the same events
\* in every step.
C23_DisconnectCleansUp ==
    /\ [](\A c \in DOMAIN streams :
             /\ streams[c].handler <=> ~streams[c].closed
             /\ streams[c].timer <=> ~streams[c].closed)
    /\ [][\A c \in DOMAIN streams :
             /\ streams[c].closed => streams'[c] = streams[c]
             /\ (~streams[c].closed /\ streams'[c].closed) =>
                   \A d \in DOMAIN streams \ {c} : streams'[d] = streams[d]
             /\ \A d \in DOMAIN streams :
                   (Open(c) /\ Open(d) /\ streams[c].sid = streams[d].sid)
                      => streams'[c].got - streams[c].got
                            = streams'[d].got - streams[d].got]_vars

\* the first observer has disconnected and the second one, still open, has
\* got events that the first one did not get
C23_Witness ==
    /\ Len(streams) = 2
    /\ streams[1].closed
    /\ ~streams[2].closed
    /\ streams[2].sid = streams[1].sid
    /\ streams[2].got > streams[1].got
    /\ streams[1].got > 0

\* C24: a session whose document holds its present content comes back
\* from a restart equal in every field: dates as dates, and texts, the
\* caption among them, as the texts they were.
C24_RoundTrip ==
    [][reply'.op = "restart" =>
          \A sid \in DOMAIN sessions \cap DOMAIN disk :
             disk[sid] = Document(sessions[sid])
                => /\ Has(sessions', sid)
                   /\ sessions'[sid] = sessions[sid]]_vars

\* the produce stage of the job has returned or thrown
ProduceOver(n) == jobs[n].status \in {"completed", "failed"}

\* C25: once the produce stage of a job has returned or thrown, on whatever
\* path, its ticker fires no more: it advances no further, writes no
\* progress to the node and publishes no progress event.
C25_TickerStopsWithProduce ==
    [][\A n \in DOMAIN jobs :
          (ProduceOver(n) /\ n \in DOMAIN tickers /\ n \in DOMAIN tickers')
             => tickers'[n] = tickers[n]]_vars

\* C26: overlapping store calls lose no update: a node that a call has put
\* into a session stays in that session in every step that is not a
\* setDirections of the planner.
C26_NoLostUpdate ==
    [][\A sid \in SessionIds :
          (Stays(sid) /\ analyzers' = analyzers)
              => {n.id : n \in SessionNodes(sessions[sid])} \subseteq
                     {n.id : n \in SessionNodes(sessions'[sid])}]_vars

\* the step is the return of a writeFile of flushDirty for sid
WriteReturns(f, sid) ==
    f \in flushes /\ f.pc = "write" /\ f.sid = sid /\ f \notin flushes'

\* C27: during a flush the dirty flag of a session is cleared only by the
\* successful write of its document, never before; a session whose write
\* has failed is dirty after that write, and a write changes no session in
\* memory.
C27_ClearedAfterWrite ==
    [][\A sid \in DOMAIN sessions' :
          /\ (sid \in dirty /\ sid \notin dirty')
                => \E f \in flushes :
                      /\ WriteReturns(f, sid)
                      /\ disk' = WriteFile(disk, sid, f.doc)
          /\ \A f \in flushes :
                WriteReturns(f, sid) =>
                   /\ sessions' = sessions
                   /\ (sid \notin DOMAIN disk' \/ disk'[sid] # f.doc)
                         => sid \in dirty']_vars

\* the store serves calls only when no loadAll is running, at most one
\* loadAll runs, and a store in service has exactly one flush timer
LoadedOnce ==
    /\ initialized => loads = {}
    /\ Cardinality(loads) <= 1
    /\ saveIntervals <= 1
    /\ initialized => saveIntervals = 1

\* a readFile of loadAll returns in this step
ReadReturns == \E l \in loads : l.pc = "read" /\ l \notin loads'

\* C28: the store is initialized once and before service: no call is served
\* while documents are still being loaded, overlapping first calls load
\* once and start one flush timer, and a loaded document never replaces a
\* session that the map already holds with other content.
C28_InitializedOnce ==
    /\ []LoadedOnce
    /\ [][ReadReturns =>
             \A sid \in DOMAIN sessions :
                 Has(sessions', sid) /\ sessions'[sid] = sessions[sid]]_vars

\* the jobs that wait are the queue, each once, and a job is not started
\* before a job pushed ahead of it
StartedInOrder ==
    /\ \A j \in DOMAIN jobs :
          jobs[j].status = "queued" <=> j \in Range(jobQueue)
    /\ \A a, b \in DOMAIN jobQueue : a < b => jobQueue[a] < jobQueue[b]
    /\ \A i, j \in DOMAIN jobs :
          (i < j /\ jobs[j].status # "queued") => jobs[i].status # "queued"

\* a job that the worker has taken is never taken again
StartedOnce ==
    \A j \in DOMAIN jobs :
       (jobs[j].status # "queued" /\ jobs'[j].status = "processing")
           => jobs[j].status = "processing"

\* C29: the worker starts the jobs in the order of their push, whatever
\* their session and direction, and each job is processed exactly once: no
\* job is taken twice and, when every awaited call returns, every job that
\* was pushed is taken.
C29_FifoExactlyOnce ==
    /\ []StartedInOrder
    /\ [][StartedOnce]_vars
    /\ \A n \in NodeIds :
          (n <= nextNode) ~> (n <= nextNode /\ jobs[n].status # "queued")

\* a job is in the poll loop of generateVideo
InPoll == \E w \in loops : w.pc \in {"vid_sleep", "vid_poll"}

\* what the return of a status poll may lead to: the download, the failure
\* of the job, or one more round while fewer than 120 polls were made; a
\* round that is not the last raises the count by one poll
PollStep ==
    \A w \in loops :
       /\ (w.pc = "vid_poll" /\ w \notin loops') =>
             \/ [w EXCEPT !.pc = "vid_download"] \in loops'
             \/ /\ jobs'[w.job].status = "failed"
                /\ jobs'[w.job].error = VideoTimedOut
                      => w.attempts = MaxAttempts
             \/ /\ w.attempts < MaxAttempts
                /\ [w EXCEPT !.pc = "vid_sleep"] \in loops'
       /\ (w.pc = "vid_poll" /\ w \notin loops' /\ w.attempts = MaxAttempts
              /\ [w EXCEPT !.pc = "vid_download"] \notin loops') =>
             /\ jobs'[w.job].status = "failed"
             /\ jobs'[w.job].error \in {VideoTimedOut, VideoFailed}
       /\ (w.pc = "vid_sleep" /\ w \notin loops') =>
             [w EXCEPT !.pc = "vid_poll", !.attempts = @ + 1] \in loops'

\* C30: the poll loop of generateVideo ends: no job makes more than 120
\* status polls; a poll leads to the download, fails the job, or is
\* followed by one more poll while fewer than 120 were made, and after the
\* 120th poll without completion the job fails with the timeout error; a
\* job in the loop leaves it when every awaited call returns.
C30_PollLoopEnds ==
    /\ [](\A w \in loops : w.attempts <= MaxAttempts)
    /\ [][PollStep]_vars
    /\ InPoll ~> ~InPoll

\* C30: a job has failed with the timeout error after 120 polls
C30_Witness ==
    \E j \in DOMAIN jobs :
        /\ jobs[j].status = "failed"
        /\ jobs[j].error = VideoTimedOut

\* the step publishes generation_complete for node n
CompletePublished(n) ==
    /\ n \in DOMAIN jobs
    /\ jobs[n].status # "completed"
    /\ jobs'[n].status = "completed"
    /\ channel'[n].terminal > channel[n].terminal

\* C31: a node has an outputUrl, and a thumbnailUrl, exactly when its status
\* is 'complete'; the step that makes a node complete sets both locations,
\* progress 100 and completedAt, and generation_complete is published for a
\* stored node only with that update done.
C31_UrlsIffComplete ==
    /\ [](\A n \in AllNodes :
            /\ n.outputUrl # Null <=> n.status = "complete"
            /\ n.thumbnailUrl # Null <=> n.status = "complete")
    /\ [][\A sid \in SessionIds : Stays(sid) =>
            \A m \in SessionNodes(sessions'[sid]) :
               /\ (/\ m.status = "complete"
                   /\ \E n \in SessionNodes(sessions[sid]) :
                         n.id = m.id /\ n.status # "complete")
                     => /\ m.outputUrl # Null
                        /\ m.thumbnailUrl = m.outputUrl
                        /\ m.progress = Pct(100)
                        /\ m.completedAt # Null
                        /\ CompletePublished(m.id)
               /\ CompletePublished(m.id) => m.status = "complete"]_vars

\* C31: a node is complete and carries its locations, while another node of
\* the store has none yet
C31_Witness ==
    /\ \E n \in AllNodes : n.status = "complete" /\ n.outputUrl # Null
    /\ \E n \in AllNodes : n.status # "complete" /\ n.outputUrl = Null

\* the job of node n has not passed the gate: it waits in the queue or its
\* activation is at or before the call of gatePrompt
BeforeGate(n) ==
    \/ jobs[n].status = "queued"
    \/ \E w \in loops : w.job = n /\ w.pc \in {"head", "compose", "gate"}

\* C32: a node whose job has not passed the gate has neither prompt nor
\* promptMeta; both are set in one update, the one that sets progress 40,
\* and a prompt or promptMeta once set is never changed.
C32_PromptSetOnce ==
    /\ [](\A n \in AllNodes :
            BeforeGate(n.id) => n.prompt = Null /\ n.promptMeta = Null)
    /\ [][\A sid \in SessionIds : Stays(sid) =>
            \A n \in SessionNodes(sessions[sid]) :
               \A m \in SessionNodes(sessions'[sid]) :
                  (m.id = n.id
                      /\ (m.prompt # n.prompt \/ m.promptMeta # n.promptMeta))
                    => /\ n.prompt = Null /\ n.promptMeta = Null
                       /\ m.prompt # Null /\ m.promptMeta # Null
                       /\ m.progress = Pct(40)]_vars

\* C32: a node carries its prompt while its job is in the produce stage,
\* and the ticker has already written its progress
C32_Witness ==
    \E n \in AllNodes :
        /\ n.prompt # Null
        /\ n.promptMeta # Null
        /\ n.status = "generating"
        /\ n.progress > Pct(40)

\* a step of the worker loop or of a progress ticker
PipelineStep ==
    \/ WorkerNext
    \/ \E nid \in DOMAIN tickers : Tick(nid)

\* the fields of a node that the pipeline leaves as they are
NodeIdentity == {"id", "directionId", "depth", "parentNodeId", "isPinned"}

\* the fields of a session that the pipeline leaves as they are
SessionFrame == {"state", "referenceUrls", "salienceProfile", "caption"}

\* node n of the store before the step and m after it: n is as it was, or
\* it is the node of the job in processing and keeps its identity fields
OnlyOwnNode(n, m) ==
    \/ m = n
    \/ /\ jobs[n.id].status = "processing"
       /\ \A f \in NodeIdentity : m[f] = n[f]

\* C33: a step of the worker loop or of a ticker changes no node but the
\* one of the job in processing, leaves id, directionId, depth, parentNodeId
\* and isPinned of that node as they are, keeps every direction and the
\* order of its nodes, and changes no other field of the session.
C33_PipelineTouchesOwnNode ==
    [][PipelineStep =>
          /\ DOMAIN sessions' = DOMAIN sessions
          /\ \A sid \in DOMAIN sessions :
                /\ \A f \in SessionFrame : sessions'[sid][f] = sessions[sid][f]
                /\ DOMAIN sessions'[sid].directions
                      = DOMAIN sessions[sid].directions
                /\ \A i \in DOMAIN sessions[sid].directions :
                      LET d == sessions[sid].directions[i]
                          e == sessions'[sid].directions[i]
                      IN /\ e.id = d.id
                         /\ DOMAIN e.nodes = DOMAIN d.nodes
                         /\ \A k \in DOMAIN d.nodes :
                               OnlyOwnNode(d.nodes[k], e.nodes[k])]_vars

\* patches as the callers of updateNode send them, and one of a client
Patches ==
    {[status |-> "generating", progress |-> Pct(5)],
     CompletePatch("url"),
     [isPinned |-> TRUE]}

\* node ids that updateNode is called with: those handed out and one that
\* no node has
CalledIds == 1..(MaxReq + 1)

\* updateNode(sid, nid, patch) on store ss touches only the fields of the
\* patch, in the node nid
UpdateNodeFrame(ss, sid, nid, patch) ==
    LET after == UpdateNode(ss, sid, nid, patch)
    IN /\ DOMAIN after = DOMAIN ss
       /\ \A o \in DOMAIN ss : o # sid => after[o] = ss[o]
       /\ Has(ss, sid) =>
            /\ \A f \in DOMAIN ss[sid] :
                  f # "directions" => after[sid][f] = ss[sid][f]
            /\ DOMAIN after[sid].directions = DOMAIN ss[sid].directions
            /\ \A i \in DOMAIN ss[sid].directions :
                  LET d == ss[sid].directions[i]
                      e == after[sid].directions[i]
                  IN /\ e.id = d.id
                     /\ DOMAIN e.nodes = DOMAIN d.nodes
                     /\ \A k \in DOMAIN d.nodes :
                           IF d.nodes[k].id = nid
                           THEN \A f \in DOMAIN d.nodes[k] :
                                   e.nodes[k][f] =
                                      IF f \in DOMAIN patch THEN patch[f]
                                      ELSE d.nodes[k][f]
                           ELSE e.nodes[k] = d.nodes[k]
            /\ ~NodeExists(ss, sid, nid) =>
                  after[sid].directions = ss[sid].directions

\* C34: updateNode changes the fields named in the patch, of the node with
\* the given id, and nothing else: not the other fields of that node, not
\* another node, not the order of the nodes of a direction; with an id
\* that no node has it changes no node.  Checked on every store the
\* program reaches.
C34_UpdateNodeFrame ==
    \A sid \in SessionIds, nid \in CalledIds, patch \in Patches :
        UpdateNodeFrame(sessions, sid, nid, patch)

\* C34: the store holds two nodes in one direction, and an update of the
\* first changes it
C34_Witness ==
    \E sid \in DOMAIN sessions :
       \E i \in DOMAIN sessions[sid].directions :
          LET d == sessions[sid].directions[i]
          IN /\ Len(d.nodes) >= 2
             /\ d.nodes[1].id # d.nodes[2].id
             /\ UpdateNode(sessions, sid, d.nodes[1].id, [isPinned |-> TRUE])
                    # sessions

\* no element of s occurs twice
NoDuplicate(s) == \A a, b \in DOMAIN s : s[a] = s[b] => a = b

\* the position of the first occurrence of x in s
FirstAt(s, x) == CHOOSE a \in DOMAIN s : s[a] = x /\ \A b \in 1..(a - 1) : s[b] # x

\* C35: the reference list of a session never holds a url twice; an add
\* request keeps the urls of the list in their places and appends the urls
\* that are new, each once, in the order in which the request names them
\* first; a request that names only urls of the list leaves the list as
\* it is.
C35_ReferencesDeduped ==
    /\ [](\A sid \in DOMAIN sessions :
             NoDuplicate(sessions[sid].referenceUrls))
    /\ [][\A sid \in SessionIds, urls \in RefRequests :
             AddReferences(sid, urls) =>
                LET old == sessions[sid].referenceUrls
                    new == sessions'[sid].referenceUrls
                IN /\ Len(new) >= Len(old)
                   /\ SubSeq(new, 1, Len(old)) = old
                   /\ Range(new) = Range(old) \cup Range(urls)
                   /\ \A a, b \in (Len(old) + 1)..Len(new) :
                         a < b => FirstAt(urls, new[a]) < FirstAt(urls, new[b])
                   /\ Range(urls) \subseteq Range(old) => new = old]_vars

\* C35: the list holds three urls, in the order of their insertion and not
\* in the order of their names
C35_Witness ==
    \E sid \in DOMAIN sessions :
        sessions[sid].referenceUrls = <<"u3", "u1", "u2">>

\* C36: at every suspension point a job that waits in the queue has a
\* worker loop that will take it, and isProcessing is set only while a
\* worker loop runs.
C36_FlagMeansLoop ==
    /\ Len(jobQueue) > 0 => loops # {}
    /\ isProcessing => loops # {}

\* C37: in a step that publishes generation_complete for a node, the store
\* holds the node afterwards, with status 'complete' and the location that
\* the event carries; also when the session was deleted or a new analysis
\* replaced the directions while the job ran.
C37_CompleteEventHasNode ==
    [][\A n \in NodeIds :
          CompletePublished(n) =>
             /\ NodeExists(sessions', jobs[n].sessionId, n)
             /\ LET m == GetNode(sessions', jobs[n].sessionId, n)
                IN m.status = "complete" /\ m.outputUrl = "url"]_vars

\* C38: no direction holds more than 5 nodes and every stored node has a
\* depth from 1 to 5, whatever depth values the accepted requests carried.
C38_DepthWithinBounds ==
    /\ \A sid \in DOMAIN sessions :
          \A i \in DOMAIN sessions[sid].directions :
             Len(sessions[sid].directions[i].nodes) <= MaxDepth
    /\ \A n \in AllNodes : n.depth >= 1 /\ n.depth <= MaxDepth

\* the suspension points of the produce stage
ProducePcs ==
    {"img_mkdir", "img_api", "img_write", "vid_mkdir", "vid_create",
     "vid_sleep", "vid_poll", "vid_download", "vid_write"}

\* the package attached to the stored node of job j is the composer's
ComposedOnNode(ss, j) ==
    NodeExists(ss, j.sessionId, j.nodeId) =>
        LET n == GetNode(ss, j.sessionId, j.nodeId)
        IN n.prompt = "composed" /\ n.promptMeta = "composed"

C40_DeletedStaysDeleted ==
    [][\A sid \in 1..nextSession :
          ~Has(sessions, sid) => ~Has(sessions', sid)]_vars

\* C40: a job found its session deleted and its failure was written with
\* updateNode, while a handler that read the session before the delete
\* has still to call setState
C40_Witness ==
    /\ \E j \in DOMAIN jobs :
          /\ jobs[j].status = "failed"
          /\ jobs[j].error = Message("Session not found", "")
          /\ ~Has(sessions, jobs[j].sessionId)
    /\ \E r \in pending : ~Has(sessions, r.req.sid)
====
